---- MODULE Spec2Model ----
(***************************************************************************)
(* Model of the DappQL query-aggregation engine (ContextQueryManager /     *)
(* GlobalQueryManager), of the useContextQuery hook that registers with it *)
(* and of the result shape adapter (useResultData).                        *)
(***************************************************************************)
EXTENDS Integers, Sequences, FiniteSets, TLC

VARIABLES
  queries,          \* ContextQueryManager.queries: id -> {collection, callBack}
  activeQueries,    \* ContextQueryManager.activeQueries: a Set, kept in insertion order
  currGlobal,       \* ContextQueryManager.currGlobal: {version, count, calls}
  version,          \* ContextQueryManager.version
  queryId,          \* ContextQueryManager.queryId: next id to hand out
  addressResolver,  \* ContextQueryManager.addressResolver
  providerQuery,    \* ContextQueryProvider's query state: the batch last handed to onUpdate (setQuery)
  hooks,            \* per useContextQuery instance: its React state, ref and memo
  fired,            \* callback invocations made by the last onResult call
  last,             \* what the last engine call was, and what it was given
  issued,           \* ids returned by addQuery so far, in order
  removedIds,       \* ids of registered queries removeQuery was called with so far
  recomputations,   \* number of addQuery/removeQuery/setAddressResolver calls so far
  subscribers,      \* BlockSubscriptionManager.subscribers: a Set, kept in insertion order
  currentBlock,     \* BlockSubscriptionManager.currentBlock
  subscriptions,    \* the subscribe calls so far: callback, whether the returned function was
                    \* called (closed), whether one returned for the same callback was (cut)
  delivered,        \* subscriber invocations made by the last notifier call
  scheduler,        \* one component's useRefetchOnBlockChange: its props and its effect's closure
  iteratorProps,    \* total and firstIndex of the component that uses an iterator hook
  asyncOut,         \* the last call of the async query / iteratorQuery and how it ended
  mutation,         \* the component that uses useMutation: its options and what its provider gives it
  clock,            \* what Date.now() returns
  sends,            \* the send() calls so far: id, stage and the updates send() made for each
  watchers,         \* the TransactionWatcher instances created so far
  globalWatcher,    \* globalWatcher: the index of the current instance, 0 for null
  storage,          \* localStorage['pending-transactions']
  contextBlocks,    \* ContextQueryProvider's use of blocks: its props, its blockNumber state,
                    \* its scheduler's closure and the reads the last step caused
  executor,         \* ContextQueryProvider's useReadContracts: the query state it was rendered
                    \* with, the result it returned, whether the onResult effect is yet to run
  providerState     \* the Provider component: its props, its resolver state, what it renders

vars == <<queries, activeQueries, currGlobal, version, queryId, addressResolver,
          providerQuery, hooks, fired, last, issued, removedIds, recomputations,
          subscribers, currentBlock, subscriptions, delivered, scheduler,
          iteratorProps, asyncOut,
          mutation, clock, sends, watchers, globalWatcher, storage, contextBlocks,
          executor, providerState>>

engineVars == <<queries, activeQueries, currGlobal, version, queryId, addressResolver>>

\* everything the query engine and its hooks own, but for the record of the last call
queryVars == <<engineVars, providerQuery, hooks, fired, issued, removedIds, recomputations>>

blockVars == <<subscribers, currentBlock, subscriptions, delivered, scheduler, contextBlocks>>

asyncVars == <<iteratorProps, asyncOut, executor>>

mutationVars == <<mutation, clock, sends, watchers, globalWatcher, storage>>

(***************************************************************************)
(* Bounds                                                                  *)
(***************************************************************************)
MaxQueries == 3    \* addQuery calls in one run
MaxVersion == 4    \* recomputations in one run
MaxRounds == 2     \* distinct executor rounds (a round stamps the values it returns)
MaxBlock == 5      \* highest block number the upstream watcher reports
MaxSubscriptions == 3  \* subscribe calls in one run
MaxTotal == 2      \* highest total of an iterator query
MaxFirstIndex == 1 \* highest firstIndex of an iterator query
MaxSends == 2      \* send() calls in one run
MaxClock == 1      \* highest value Date.now() takes, counted from the first call
MaxWatchers == 2   \* TransactionWatcher instances created in one run
MaxStored == 2     \* entries of localStorage['pending-transactions'] when a 'signed' update is repeated

(***************************************************************************)
(* JavaScript values                                                       *)
(***************************************************************************)
\* undefined where the code expects a string (address, resolver)
Undefined == "undefined"

\* undefined and null where the code expects a value, an array or an Error
UndefinedValue == [t |-> "undefined"]
NullValue == [t |-> "null"]

\* x ?? y takes y exactly when x is null or undefined
Nullish(x) == x = UndefinedValue \/ x = NullValue

Default(name) == [t |-> "default", of |-> name]
Bool(b) == [t |-> "boolean", value |-> b]
BigInt(n) == [t |-> "bigint", value |-> n]
Number(n) == [t |-> "number", value |-> n]

\* what !!v is
Truthy(v) ==
  CASE v.t \in {"undefined", "null"} -> FALSE
    [] v.t = "boolean" -> v.value
    [] v.t \in {"bigint", "number"} -> v.value # 0
    [] OTHER -> TRUE
Error(msg) == [t |-> "error", message |-> msg]
Array(items) == [t |-> "array", items |-> items]

Min(a, b) == IF a < b THEN a ELSE b

Range(s) == {s[i] : i \in 1..Len(s)}

\* f[k] of a JS object: undefined when the key is missing
Get(f, k) == IF k \in DOMAIN f THEN f[k] ELSE UndefinedValue

\* currentBlock before any block was observed (undefined)
NoBlock == -1

\* no component with an iterator hook is mounted
NoIterator == [total |-> -1, firstIndex |-> 0]

\* neither query nor iteratorQuery was called yet
NoCall == [op |-> "none"]

\* no component has used useMutation yet
NoMutation == [mounted |-> FALSE, started |-> FALSE]

\* txHash of an update that carries none (undefined)
NoHash == 0

\* no ContextQueryProvider is rendered
NoContext == [mounted |-> FALSE]

\* ContextQueryProvider's useReadContracts before the first render
NoExecutor == [mounted |-> FALSE]

\* no Provider is rendered
NoProvider == [mounted |-> FALSE]

(***************************************************************************)
(* Requests, collections and address resolvers the callers may use         *)
(***************************************************************************)
Request(cn, m, addr, dep, dv) ==
  [contractName |-> cn, method |-> m, args |-> <<>>, address |-> addr,
   deployAddress |-> dep, defaultValue |-> dv]

ReqA == Request("T", "a", "0xA", "0xD", Default("a"))
ReqB == Request("T", "b", Undefined, "0xD", Default("b"))
ReqC == Request("U", "c", Undefined, "0xE", NullValue)

Entry(k, r) == [key |-> k, req |-> r]

\* a RequestCollection is an object: its keys in insertion order with their requests
Collections ==
  { <<>>,
    <<Entry("x", ReqA)>>,
    <<Entry("x", ReqB), Entry("y", ReqC)>> }

Resolvers == {Undefined, "r1"}

\* AddressResolverFunction: r1 knows contract T only
ResolverFn(r, name) ==
  CASE r = "r1" /\ name = "T" -> "0xT1"
    [] OTHER -> Undefined

\* the components whose render state is followed
Hooks == {"h1"}

(***************************************************************************)
(* ContextQueryManager                                                     *)
(***************************************************************************)
RECURSIVE SortedIds(_)
SortedIds(S) ==
  IF S = {} THEN <<>>
  ELSE LET m == CHOOSE x \in S : \A y \in S : x <= y
       IN <<m>> \o SortedIds(S \ {m})

\* Object.keys of an object with integer keys: ascending numeric order
ObjectKeys(qs) == SortedIds(DOMAIN qs)

\* Set.add / Set.delete on a Set, which iterates in insertion order
SetAdd(s, id) == IF id \in Range(s) THEN s ELSE Append(s, id)
SetDelete(s, id) == SelectSeq(s, LAMBDA x : x # id)

\* delete obj[id]
DeleteKey(qs, id) == [k \in DOMAIN qs \ {id} |-> qs[k]]

\* the address taken from the resolver first, the explicit address after it
ResolveAddressResolverFirst(request, resolver) ==
  IF resolver # Undefined /\ ResolverFn(resolver, request.contractName) # Undefined
  THEN ResolverFn(resolver, request.contractName)
  ELSE IF request.address # Undefined THEN request.address
       ELSE request.deployAddress

\* request.address || this.addressResolver?.(request.contractName) || request.deployAddress!
ResolveAddress(request, resolver) ==
  IF request.address # Undefined THEN request.address
  ELSE IF resolver # Undefined /\ ResolverFn(resolver, request.contractName) # Undefined
       THEN ResolverFn(resolver, request.contractName)
       ELSE request.deployAddress

\* Object.values(query.collection).map(request => Call)
ExpandQuery(id, collection, resolver) ==
  [i \in 1..Len(collection) |->
     [queryId |-> id, abi |-> "abi", functionName |-> collection[i].req.method,
      args |-> collection[i].req.args,
      address |-> ResolveAddress(collection[i].req, resolver)]]

\* the reduce step recording the running total as the query's count
ReduceStepTotal(acc, calls) ==
  IF Len(calls) > 0
  THEN [acc EXCEPT !.calls = acc.calls \o calls,
                   !.count = [k \in DOMAIN acc.count \cup {calls[1].queryId} |->
                                IF k = calls[1].queryId THEN Len(acc.calls) + Len(calls)
                                ELSE acc.count[k]]]
  ELSE acc

\* the reduce step: a query with no calls adds nothing, not even a count
ReduceStep(acc, calls) ==
  IF Len(calls) > 0
  THEN [acc EXCEPT !.calls = acc.calls \o calls,
                   !.count = [k \in DOMAIN acc.count \cup {calls[1].queryId} |->
                                IF k = calls[1].queryId THEN Len(calls) ELSE acc.count[k]]]
  ELSE acc

RECURSIVE ReduceQueries(_, _, _, _)
ReduceQueries(ids, qs, resolver, acc) ==
  IF ids = <<>> THEN acc
  ELSE ReduceQueries(Tail(ids), qs, resolver,
                     ReduceStep(acc, ExpandQuery(Head(ids), qs[Head(ids)].collection, resolver)))

EmptyCount == [k \in {} |-> 0]

\* the batch aggregateQueries builds for the version it has just taken
NewContextQuery(qs, resolver, queryVersion) ==
  ReduceQueries(ObjectKeys(qs), qs, resolver,
                [version |-> queryVersion, count |-> EmptyCount, calls |-> <<>>])

\* aggregateQueries taking a new version only when the calls or the counts differ
aggregateQueriesSameVersion(qs, resolver, ver, cg) ==
  LET newContextQuery == NewContextQuery(qs, resolver, ver + 1)
      changed == newContextQuery.calls # cg.calls \/ newContextQuery.count # cg.count
  IN [version |-> IF changed THEN ver + 1 ELSE ver,
      currGlobal |-> IF changed THEN newContextQuery ELSE cg,
      onUpdate |-> IF changed THEN <<newContextQuery>> ELSE <<>>]

\* aggregateQueries comparing the calls and the counts only, the version left aside
aggregateQueriesByValue(qs, resolver, ver, cg) ==
  LET queryVersion == ver + 1
      newContextQuery == NewContextQuery(qs, resolver, queryVersion)
      changed == newContextQuery.calls # cg.calls \/ newContextQuery.count # cg.count
  IN [version |-> queryVersion,
      currGlobal |-> IF changed THEN newContextQuery ELSE cg,
      onUpdate |-> IF changed THEN <<newContextQuery>> ELSE <<>>]

\* aggregateQueries storing every candidate but notifying the dispatcher only when the
\* calls or the counts differ
aggregateQueriesQuiet(qs, resolver, ver, cg) ==
  LET queryVersion == ver + 1
      newContextQuery == NewContextQuery(qs, resolver, queryVersion)
      changed == newContextQuery.calls # cg.calls \/ newContextQuery.count # cg.count
  IN [version |-> queryVersion,
      currGlobal |-> newContextQuery,
      onUpdate |-> IF changed THEN <<newContextQuery>> ELSE <<>>]

\* aggregateQueries: the version, the stored batch and the onUpdate calls it leaves
\* (this.version === queryVersion holds, nothing having run in between)
aggregateQueries(qs, resolver, ver, cg) ==
  LET queryVersion == ver + 1
      newContextQuery == NewContextQuery(qs, resolver, queryVersion)
      changed == newContextQuery # cg
  IN [version |-> queryVersion,
      currGlobal |-> IF changed THEN newContextQuery ELSE cg,
      onUpdate |-> IF changed THEN <<newContextQuery>> ELSE <<>>]

\* addQuery taking the number of registered queries as the id
addQueryBySize(qs, active, nextId, query) ==
  LET id == Cardinality(DOMAIN qs)
  IN [id |-> id,
      queryId |-> nextId + 1,
      queries |-> [k \in DOMAIN qs \cup {id} |-> IF k = id THEN query ELSE qs[k]],
      activeQueries |-> SetAdd(active, id)]

\* addQuery up to its call of aggregateQueries
addQuery(qs, active, nextId, query) ==
  [id |-> nextId,
   queryId |-> nextId + 1,
   queries |-> [k \in DOMAIN qs \cup {nextId} |-> IF k = nextId THEN query ELSE qs[k]],
   activeQueries |-> SetAdd(active, nextId)]

\* removeQuery returning early, removing nothing
removeQueryNothing(qs, active, id) ==
  [queries |-> qs, activeQueries |-> active]

\* removeQuery dropping the last registered query when the id is not found, as
\* splice(indexOf(id), 1) does
removeQuerySplice(qs, active, id) ==
  IF id \in Range(active) \/ active = <<>>
  THEN [queries |-> DeleteKey(qs, id), activeQueries |-> SetDelete(active, id)]
  ELSE [queries |-> DeleteKey(qs, active[Len(active)]),
        activeQueries |-> SubSeq(active, 1, Len(active) - 1)]

\* removeQuery up to its call of aggregateQueries
removeQuery(qs, active, id) ==
  [queries |-> DeleteKey(qs, id),
   activeQueries |-> SetDelete(active, id)]

\* slice given the count where it takes the end: result.data.slice(index, count)
SliceByCount(items, index, end) ==
  IF index >= Len(items) \/ end - index <= index THEN <<>>
  ELSE SubSeq(items, index + 1, Min(end - index, Len(items)))

\* result.data.slice(index, index + count)
Slice(items, index, end) ==
  IF index >= Len(items) THEN <<>> ELSE SubSeq(items, index + 1, Min(end, Len(items)))

\* shouldUpdate without the version check
shouldUpdateAnyVersion(result, v, cg) ==
  /\ ~result.isLoading
  /\ result.data # UndefinedValue
  /\ Len(result.data.items) = Len(cg.calls)

\* shouldUpdate without the length check
shouldUpdateAnyLength(result, v, cg) ==
  /\ ~result.isLoading
  /\ result.data # UndefinedValue
  /\ v = cg.version

shouldUpdate(result, v, cg) ==
  /\ ~result.isLoading
  /\ result.data # UndefinedValue
  /\ Len(result.data.items) = Len(cg.calls)
  /\ v = cg.version

\* the forEach of onResult calling back a query without a count too, with an empty slice
RECURSIVE ForEachActiveEvery(_, _, _, _, _)
ForEachActiveEvery(ids, index, result, cg, qs) ==
  IF ids = <<>> THEN <<>>
  ELSE LET id == Head(ids)
           count == IF id \in DOMAIN cg.count THEN cg.count[id] ELSE 0
       IN <<[queryId |-> id,
             callBack |-> IF id \in DOMAIN qs THEN qs[id].callBack ELSE "TypeError",
             result |-> [isLoading |-> FALSE, isError |-> result.isError,
                         data |-> Array(Slice(result.data.items, index, index + count)),
                         error |-> result.error]]>>
          \o ForEachActiveEvery(Tail(ids), index + count, result, cg, qs)

\* the activeQueries.forEach of onResult: the callback invocations, in order
RECURSIVE ForEachActive(_, _, _, _, _)
ForEachActive(ids, index, result, cg, qs) ==
  IF ids = <<>> THEN <<>>
  ELSE LET id == Head(ids)
           count == IF id \in DOMAIN cg.count THEN cg.count[id] ELSE 0
       IN IF count = 0
          THEN ForEachActive(Tail(ids), index, result, cg, qs)
          ELSE <<[queryId |-> id,
                  callBack |-> IF id \in DOMAIN qs THEN qs[id].callBack ELSE "TypeError",
                  result |-> [isLoading |-> FALSE, isError |-> result.isError,
                              data |-> Array(Slice(result.data.items, index, index + count)),
                              error |-> result.error]]>>
               \o ForEachActive(Tail(ids), index + count, result, cg, qs)

onResult(result, v, cg, active, qs) ==
  IF shouldUpdate(result, v, cg) THEN ForEachActive(active, 0, result, cg, qs) ELSE <<>>

(***************************************************************************)
(* The executor (useReadContracts): positional results, one per call       *)
(***************************************************************************)
ExecValue(call, round) ==
  [t |-> "result", functionName |-> call.functionName, args |-> call.args,
   address |-> call.address, round |-> round]

ExecEntry(call, round, failed) ==
  IF failed
  THEN [status |-> "failure", error |-> Error("revert"), result |-> UndefinedValue]
  ELSE [status |-> "success", error |-> UndefinedValue, result |-> ExecValue(call, round)]

\* a successful entry holding this value
Success(value) == [status |-> "success", error |-> UndefinedValue, result |-> value]

\* a failed entry holding this error
Failure(error) == [status |-> "failure", error |-> error, result |-> UndefinedValue]

\* failAt = 0: every call succeeds; otherwise the call at that position reverts
ExecData(calls, round, failAt) ==
  [i \in 1..Len(calls) |-> ExecEntry(calls[i], round, i = failAt)]

\* what the executor may answer to a call list
Answers(calls) ==
  {Array(ExecData(calls, round, failAt)) : round \in 1..MaxRounds, failAt \in 0..1}

\* what the executor may answer when any one call of the list, or none, reverts
AnswersAt(calls) ==
  {Array(ExecData(calls, round, failAt)) : round \in 1..MaxRounds, failAt \in 0..Len(calls)}

\* the entries the executor may give for a call: it reverts, or it returns a value, which
\* may be the number zero
EntriesFor(call) ==
  {ExecEntry(call, round, failed) : round \in 1..MaxRounds, failed \in BOOLEAN}
    \cup {[status |-> "success", error |-> UndefinedValue, result |-> BigInt(0)]}

\* data is an answer of the executor to these calls
IsAnswer(calls, data) ==
  /\ data # UndefinedValue
  /\ Len(data.items) = Len(calls)
  /\ \A i \in 1..Len(calls) : data.items[i] \in EntriesFor(calls[i])

(***************************************************************************)
(* queryHooks and useContextQuery                                          *)
(***************************************************************************)
\* useState<ReadContractsResult> initial value
InitialResult ==
  [isLoading |-> TRUE, isError |-> FALSE, data |-> UndefinedValue, error |-> NullValue]

\* useCallKeys: Object.keys(requests)
useCallKeys(requests) == [i \in 1..Len(requests) |-> requests[i].key]

\* useDefaultData
useDefaultData(requests) ==
  [k \in Range(useCallKeys(requests)) |->
     (CHOOSE e \in Range(requests) : e.key = k).req.defaultValue]

\* result.data?.[index]?.result, index counted from 1
ResultAt(result, index) ==
  IF result.data = UndefinedValue THEN UndefinedValue
  ELSE IF index > Len(result.data.items) THEN UndefinedValue
  ELSE result.data.items[index].result

Coalesce(a, b) == IF Nullish(a) THEN b ELSE a

\* useResultData falling back to the defaults while the result has an error
useResultDataDefaults(requests, result, previousData) ==
  IF result.error = NullValue \/ result.error = UndefinedValue
  THEN LET newData ==
             [k \in Range(useCallKeys(requests)) |->
                LET index == CHOOSE i \in 1..Len(requests) : requests[i].key = k
                IN Coalesce(ResultAt(result, index),
                            Coalesce(Get(previousData, k), requests[index].req.defaultValue))]
       IN [data |-> newData, previousData |-> newData]
  ELSE [data |-> useDefaultData(requests), previousData |-> previousData]

\* useResultData keeping every key as it was when any call of the query has failed
useResultDataAllOrNothing(requests, result, previousData) ==
  IF result.error = NullValue \/ result.error = UndefinedValue
  THEN LET failed == \E i \in 1..Len(requests) : Nullish(ResultAt(result, i))
           newData ==
             [k \in Range(useCallKeys(requests)) |->
                LET index == CHOOSE i \in 1..Len(requests) : requests[i].key = k
                IN Coalesce(IF failed THEN UndefinedValue ELSE ResultAt(result, index),
                            Coalesce(Get(previousData, k), requests[index].req.defaultValue))]
       IN [data |-> newData, previousData |-> newData]
  ELSE [data |-> [k \in Range(useCallKeys(requests)) |->
                    LET index == CHOOSE i \in 1..Len(requests) : requests[i].key = k
                    IN Coalesce(Get(previousData, k), requests[index].req.defaultValue)],
        previousData |-> previousData]

\* the body of the useMemo of useResultData: the data it returns and previousData.current
useResultData(requests, result, previousData) ==
  IF result.error = NullValue \/ result.error = UndefinedValue
  THEN LET newData ==
             [k \in Range(useCallKeys(requests)) |->
                LET index == CHOOSE i \in 1..Len(requests) : requests[i].key = k
                IN Coalesce(ResultAt(result, index),
                            Coalesce(Get(previousData, k), requests[index].req.defaultValue))]
       IN [data |-> newData, previousData |-> newData]
  ELSE [data |-> [k \in Range(useCallKeys(requests)) |->
                    LET index == CHOOSE i \in 1..Len(requests) : requests[i].key = k
                    IN Coalesce(Get(previousData, k), requests[index].req.defaultValue)],
        previousData |-> previousData]

\* the dependency list of that useMemo
MemoDeps(requests, result) == <<result.data, result.error, useDefaultData(requests)>>

\* one render of a useContextQuery instance: the memo is recomputed when its deps differ
RenderHook(hk, requests) ==
  LET deps == MemoDeps(requests, hk.result)
      out == useResultData(requests, hk.result, hk.previousData)
  IN IF deps = hk.deps
     THEN [hk EXCEPT !.requests = requests, !.pending = FALSE]
     ELSE [hk EXCEPT !.requests = requests, !.pending = FALSE, !.deps = deps,
                     !.data = out.data, !.previousData = out.previousData]

NoQuery == -1
NoDeps == <<UndefinedValue, UndefinedValue, EmptyCount>>

Unmounted ==
  [mounted |-> FALSE, kind |-> "none", requests |-> <<>>, queryId |-> NoQuery, result |-> InitialResult,
   previousData |-> EmptyCount, data |-> EmptyCount, deps |-> NoDeps, pending |-> FALSE]

\* the first render: useState and useRef take their initial values
FirstRender(kind, requests) ==
  RenderHook([Unmounted EXCEPT !.mounted = TRUE, !.kind = kind,
                               !.previousData = useDefaultData(requests)], requests)

\* setResult called for every callback invocation of one onResult, in order
RECURSIVE SetResults(_, _)
SetResults(hs, invocations) ==
  IF invocations = <<>> THEN hs
  ELSE LET inv == Head(invocations)
       IN SetResults(IF inv.callBack \in DOMAIN hs /\ hs[inv.callBack].mounted
                     THEN [hs EXCEPT ![inv.callBack].result = inv.result,
                                     ![inv.callBack].pending = TRUE]
                     ELSE hs,
                     Tail(invocations))

(***************************************************************************)
(* The async package: query and iteratorQuery                              *)
(***************************************************************************)
\* the contract names the resolver is called with while `address || resolver?.(name) ||
\* deployAddress` is evaluated: || does not evaluate its right side after a truthy left
ConsultedFor(address, resolver, contractName) ==
  IF address = Undefined /\ resolver # Undefined THEN <<contractName>> ELSE <<>>

\* the resolver calls of the map over the requests, in order
RECURSIVE Consulted(_, _)
Consulted(requests, resolver) ==
  IF requests = <<>> THEN <<>>
  ELSE ConsultedFor(Head(requests).req.address, resolver, Head(requests).req.contractName)
         \o Consulted(Tail(requests), resolver)

\* a MutationConfig
MutationConfig(cn, fn, dep) == [contractName |-> cn, functionName |-> fn, deployAddress |-> dep]

\* mutate(client, mutation, {address, addressResolver})(...args): whether mutate threw,
\* what client.writeContract was given and the resolver calls made
mutate(connected, config, address, resolver) ==
  IF ~connected
  THEN [thrown |-> TRUE, wrote |-> <<>>, consulted |-> <<>>]
  ELSE [thrown |-> FALSE,
        wrote |-> <<[address |-> ResolveAddress([address |-> address,
                                                 contractName |-> config.contractName,
                                                 deployAddress |-> config.deployAddress],
                                                resolver),
                     functionName |-> config.functionName]>>,
        consulted |-> ConsultedFor(address, resolver, config.contractName)]

\* the address useMutation computes in its useMemo, and the resolver calls made
useMutationAddress(config, address, resolver) ==
  [address |-> ResolveAddress([address |-> address, contractName |-> config.contractName,
                               deployAddress |-> config.deployAddress], resolver),
   consulted |-> ConsultedFor(address, resolver, config.contractName)]

\* the contracts query hands to multicall
MulticallContracts(requests, resolver) ==
  [i \in 1..Len(requests) |->
     [address |-> ResolveAddress(requests[i].req, resolver), abi |-> "abi",
      functionName |-> requests[i].req.method, args |-> requests[i].req.args]]

\* the entry multicall may give for the contract at a position: its value, a success
\* without a result (a function that returns nothing), or the contract's own revert
MulticallEntries(contracts, i) ==
  {ExecEntry(contracts[i], 1, FALSE), Success(UndefinedValue),
   Failure(Error("revert" \o ToString(i)))}

\* how multicall may settle: it rejects, or it answers with one entry per contract
MulticallOutcomes(contracts) ==
  {[status |-> "rejected", error |-> Error("transport")]}
    \cup {[status |-> "fulfilled", results |-> results] :
            results \in {r \in [1..Len(contracts) ->
                                  UNION {MulticallEntries(contracts, i) : i \in 1..Len(contracts)}] :
                           \A i \in 1..Len(contracts) : r[i] \in MulticallEntries(contracts, i)}}

\* results.find((r) => r.error)?.error
FirstError(results) ==
  LET failed == {i \in 1..Len(results) : results[i].error # UndefinedValue}
  IN IF failed = {} THEN UndefinedValue
     ELSE results[CHOOSE i \in failed : \A j \in failed : i <= j].error

\* query returning the keys with their defaults where an entry carries an error
queryPartial(requests, resolver, outcome) ==
  [contracts |-> MulticallContracts(requests, resolver),
   settled |->
     IF outcome.status = "rejected"
     THEN [status |-> "rejected", error |-> outcome.error]
     ELSE [status |-> "fulfilled",
           value |-> [i \in 1..Len(requests) |->
                        [key |-> requests[i].key,
                         value |-> Coalesce(outcome.results[i].result,
                                            requests[i].req.defaultValue)]]]]

\* query: the contracts it sent to multicall and how its promise settles
query(requests, resolver, outcome) ==
  [contracts |-> MulticallContracts(requests, resolver),
   settled |->
     IF outcome.status = "rejected"
     THEN [status |-> "rejected", error |-> outcome.error]
     ELSE IF FirstError(outcome.results) # UndefinedValue
          THEN [status |-> "rejected", error |-> FirstError(outcome.results)]
          ELSE [status |-> "fulfilled",
                value |-> [i \in 1..Len(requests) |->
                             [key |-> requests[i].key,
                              value |-> Coalesce(outcome.results[i].result,
                                                 requests[i].req.defaultValue)]]]]

(***************************************************************************)
(* BlockSubscriptionManager                                                *)
(***************************************************************************)
\* one invocation of a subscriber
Invocation(callback, block) == [callback |-> callback, block |-> block]

\* subscribe invoking the callback whenever some block was observed, block 0 included
subscribeAnyBlock(subs, current, callback) ==
  [subscribers |-> SetAdd(subs, callback),
   invoked |-> IF current # NoBlock THEN <<Invocation(callback, current)>> ELSE <<>>]

\* subscribe up to its return: the Set it leaves and the invocation it makes
subscribe(subs, current, callback) ==
  [subscribers |-> SetAdd(subs, callback),
   invoked |-> IF current # NoBlock /\ current > 0
               THEN <<Invocation(callback, current)>> ELSE <<>>]

\* the function subscribe returns: () => this.subscribers.delete(callback)
unsubscribe(subs, callback) == SetDelete(subs, callback)

\* onBlockUpdated notifying the newest subscriber first
onBlockUpdatedNewestFirst(subs, newBlock) ==
  [currentBlock |-> newBlock,
   invoked |-> [i \in 1..Len(subs) |-> Invocation(subs[Len(subs) + 1 - i], newBlock)]]

\* onBlockUpdated: the block it stores and the invocations of its forEach, in order
onBlockUpdated(subs, newBlock) ==
  [currentBlock |-> newBlock,
   invoked |-> [i \in 1..Len(subs) |-> Invocation(subs[i], newBlock)]]

\* the record of subscribe calls once the function returned by the n-th call was called
MarkClosed(log, n) ==
  [m \in 1..Len(log) |->
     [callback |-> log[m].callback,
      closed |-> log[m].closed \/ m = n,
      cut |-> log[m].cut \/ log[m].callback = log[n].callback]]

(***************************************************************************)
(* useRefetchOnBlockChange, as useQuery calls it                           *)
(***************************************************************************)
QueryOptions(watchBlocks, paused, isStatic, blockNumber, refetchInterval, blocksRefetchInterval) ==
  [watchBlocks |-> watchBlocks, paused |-> paused, isStatic |-> isStatic,
   blockNumber |-> blockNumber, refetchInterval |-> refetchInterval,
   blocksRefetchInterval |-> blocksRefetchInterval]

\* the watchBlocks argument useQuery passes, undefined taking the parameter's default
WatchArgument(options, provider) ==
  /\ Truthy(Coalesce(options.watchBlocks, provider.watchBlocks))
  /\ ~Truthy(options.paused)
  /\ ~Truthy(options.isStatic)
  /\ ~Truthy(options.blockNumber)
  /\ ~Truthy(options.refetchInterval)

\* the blocksRefetchInterval argument useQuery passes
IntervalArgument(options, provider) ==
  Coalesce(options.blocksRefetchInterval, provider.blocksRefetchInterval).value

\* no effect run holds a subscription
NoClosure == [callback |-> "none"]

\* the subscriber an effect run creates: lastBlockFetched = 0n, the interval it captured,
\* and for the record the first positive block it saw and the block of its last refetch
NewClosure(n, interval) ==
  [callback |-> "effect" \o ToString(n), subscription |-> n, lastBlockFetched |-> 0,
   interval |-> interval, first |-> 0, triggered |-> 0]

\* the subscriber calling refetchFn for every positive block, whatever the interval
onBlockChangeEveryBlock(closure, blockNumber) ==
  [refetch |-> blockNumber > 0,
   lastBlockFetched |-> IF blockNumber > 0 THEN blockNumber ELSE closure.lastBlockFetched]

\* the subscriber calling refetchFn at its first delivery, whatever the block
onBlockChangeFirstDelivery(closure, blockNumber) ==
  IF closure.lastBlockFetched = 0
  THEN [refetch |-> TRUE, lastBlockFetched |-> blockNumber]
  ELSE [refetch |-> blockNumber >= closure.lastBlockFetched + closure.interval,
        lastBlockFetched |-> IF blockNumber >= closure.lastBlockFetched + closure.interval
                             THEN blockNumber ELSE closure.lastBlockFetched]

\* the subscriber's body: whether it calls refetchFn and the lastBlockFetched it leaves
onBlockChange(closure, blockNumber) ==
  LET lastBlockFetched == IF closure.lastBlockFetched = 0 /\ blockNumber > 0
                          THEN blockNumber - 1 ELSE closure.lastBlockFetched
      shouldRefetch == blockNumber > 0 /\ blockNumber >= lastBlockFetched + closure.interval
  IN [refetch |-> shouldRefetch,
      lastBlockFetched |-> IF shouldRefetch THEN blockNumber ELSE lastBlockFetched]

\* one invocation of the subscriber, and what there is to say about it
Observe(closure, blockNumber) ==
  LET out == onBlockChange(closure, blockNumber)
      first == IF closure.first = 0 /\ blockNumber > 0 THEN blockNumber ELSE closure.first
  IN [closure |-> [closure EXCEPT !.lastBlockFetched = out.lastBlockFetched,
                                  !.first = first,
                                  !.triggered = IF out.refetch THEN blockNumber ELSE @],
      observed |-> [callback |-> closure.callback, block |-> blockNumber, first |-> first,
                    previousTrigger |-> closure.triggered, interval |-> closure.interval,
                    refetch |-> out.refetch]]

\* the cleanup that leaves the subscription in place
cleanupKeepsSubscription(subs, closure) == subs

\* the effect's cleanup: unsubscribe(), when the effect run had subscribed
cleanup(subs, closure) ==
  IF closure = NoClosure THEN subs ELSE unsubscribe(subs, closure.callback)

\* a component without a mounted scheduler, its last cleanup having released these
Idle(released) ==
  [mounted |-> FALSE, closure |-> NoClosure, observed |-> <<>>, released |-> released]

NoScheduler == Idle(<<>>)

\* the scheduler after the notifier made these invocations
Notified(sched, invoked) ==
  IF \E i \in 1..Len(invoked) : invoked[i].callback = sched.closure.callback
  THEN LET o == Observe(sched.closure, invoked[1].block)
       IN [sched EXCEPT !.closure = o.closure, !.observed = <<o.observed>>,
                        !.released = <<>>]
  ELSE [sched EXCEPT !.observed = <<>>, !.released = <<>>]

(***************************************************************************)
(* Iterator queries: buildIteratorQuery, useIteratorQueryData and          *)
(* iteratorQuery                                                           *)
(***************************************************************************)
\* the request the callers' getItem returns for an index (as in the tests: one contract
\* method, the index as its argument, 0n as default)
GetItem(realIndex) ==
  [Request("L", "item", "0xL", Undefined, BigInt(0)) EXCEPT !.args = <<realIndex>>]

\* `item${realIndex}`
ItemKey(realIndex) == "item" \o ToString(realIndex)

\* BigInt(k.replace('item', ''))
ItemIndex(k) == CHOOSE n \in 0..(MaxFirstIndex + MaxTotal) : ItemKey(n) = k

\* buildIteratorQuery numbering its keys from 0 whatever the first index
buildIteratorQueryFromZero(total, firstIndex) ==
  [index \in 1..total |-> Entry(ItemKey(index - 1), GetItem(index - 1 + firstIndex))]

buildIteratorQuery(total, firstIndex) ==
  [index \in 1..total |->
     Entry(ItemKey(index - 1 + firstIndex), GetItem(index - 1 + firstIndex))]

\* useIteratorQueryData reporting the result's isLoading whatever the total
useIteratorQueryDataLoading(total, keys, result) ==
  [data |-> SelectSeq([i \in 1..Len(keys) |->
                         [value |-> result.data[keys[i]], queryIndex |-> ItemIndex(keys[i])]],
                      LAMBDA item : Truthy(item.value)),
   isLoading |-> result.isLoading,
   error |-> result.error]

\* the body of the useMemo of useIteratorQueryData; keys is Object.keys(result.data)
useIteratorQueryData(total, keys, result) ==
  IF total = 0 THEN [data |-> <<>>, isLoading |-> FALSE, error |-> UndefinedValue]
  ELSE [data |-> SelectSeq([i \in 1..Len(keys) |->
                              [value |-> result.data[keys[i]],
                               queryIndex |-> ItemIndex(keys[i])]],
                           LAMBDA item : Truthy(item.value)),
        isLoading |-> result.isLoading,
        error |-> result.error]

\* what an iterator hook returns after a render: useIteratorQueryData(total, result),
\* result being what useContextQuery or useQuery returned
IteratorResult(hk, total) ==
  useIteratorQueryData(total, useCallKeys(hk.requests),
                       [data |-> hk.data, isLoading |-> hk.result.isLoading,
                        error |-> hk.result.error])

\* what the executor may answer to the calls of an iterator query when every call
\* succeeds: each call returns a value of its own or the number zero
IteratorAnswers(calls) ==
  {Array(items) :
     items \in {s \in [1..Len(calls) ->
                         {Success(BigInt(0))} \cup {ExecEntry(calls[i], 1, FALSE) : i \in 1..Len(calls)}] :
                  \A i \in 1..Len(calls) :
                    s[i] \in {ExecEntry(calls[i], 1, FALSE), Success(BigInt(0))}}}

\* iteratorQuery: whether it called multicall, with what, and how its promise settles
iteratorQuery(total, firstIndex, resolver, outcome) ==
  IF total = 0
  THEN [dispatched |-> FALSE, contracts |-> <<>>,
        settled |-> [status |-> "fulfilled", value |-> <<>>]]
  ELSE LET result == query(buildIteratorQuery(total, firstIndex), resolver, outcome)
       IN [dispatched |-> TRUE, contracts |-> result.contracts,
           settled |->
             IF result.settled.status = "rejected" THEN result.settled
             ELSE [status |-> "fulfilled",
                   value |-> [i \in 1..Len(result.settled.value) |->
                                [value |-> result.settled.value[i].value,
                                 queryIndex |-> ItemIndex(result.settled.value[i].key)]]]]

(***************************************************************************)
(* Provider: the address resolver state and what it renders                *)
(***************************************************************************)
\* a Provider that renders its children whether or not a resolver was reported
RendersChildrenAlways(component, resolver) == TRUE

\* {!AddressResolverComponent || addressResolverState.resolver ? children : null}
RendersChildren(component, resolver) == ~component \/ resolver # Undefined

\* Provider rendered with these props and this addressResolverState.resolver
RenderedProvider(component, resolver) ==
  [mounted |-> TRUE, component |-> component, resolver |-> resolver,
   children |-> RendersChildren(component, resolver)]

(***************************************************************************)
(* useMutation.send, useTransactionUpdates and the TransactionWatcher      *)
(***************************************************************************)
\* simulation decided by the provider's default alone
SimulateFirstByProvider(simulate, simulateMutations, client) ==
  Truthy(simulateMutations) /\ client

\* (options?.simulate ?? simulateMutations) && client
SimulateFirst(simulate, simulateMutations, client) ==
  Truthy(Coalesce(simulate, simulateMutations)) /\ client

\* mutationInfo.address + mutationInfo.functionName + now.toString()
MutationId(now) == "0x123" \o "setValue" \o ToString(now)

\* a MutationInfo handed to onMutationUpdate: by is 0 for send() and the watcher's index
\* otherwise; reached tells whether the provider's onMutationUpdate prop was called, late
\* whether the watcher had been cleaned up by then
MutationInfo(id, status, error, txHash, by, reached, late) ==
  [id |-> id, status |-> status, error |-> error, txHash |-> txHash, by |-> by,
   reached |-> reached, late |-> late]

\* sendTx: tx.writeContract(...) and the 'submitted' update
sendTx(id, client) ==
  [stage |-> "submitted", wrote |-> TRUE,
   updates |-> <<MutationInfo(id, "submitted", UndefinedValue, NoHash, 0, client, FALSE)>>]

\* send going on to the wallet without an account or a chain
sendUnguarded(account, chain, simulateFirst, id, client) ==
  IF simulateFirst
  THEN [stage |-> "simulating", wrote |-> FALSE, updates |-> <<>>]
  ELSE sendTx(id, client)

\* send(...args): what it has done when it returns
send(account, chain, simulateFirst, id, client) ==
  IF ~account \/ ~chain
  THEN [stage |-> "refused", wrote |-> FALSE,
        updates |-> <<MutationInfo(id, "error",
                                   Error(IF ~account THEN "No account connected"
                                         ELSE "Invalid chain"),
                                   NoHash, 0, client, FALSE)>>]
  ELSE IF simulateFirst
       THEN [stage |-> "simulating", wrote |-> FALSE, updates |-> <<>>]
       ELSE sendTx(id, client)

\* the JSON handleMutationUpdate stores and hands to the watcher
TxInfo(id, txHash) == [id |-> id, txHash |-> txHash]

\* a new TransactionWatcher: watchingTransactions, the waitForTransactionReceipt calls
\* that have not settled, whether cleanup ran, and for the record how often it has
\* waited on each hash and how many updates it has made for each
NoWatcher ==
  [watching |-> {}, waiting |-> {}, aborted |-> FALSE, waits |-> EmptyCount,
   emitted |-> EmptyCount]

\* a count per key, one more for this key
Increment(f, k) ==
  [x \in DOMAIN f \cup {k} |-> IF x = k THEN (IF k \in DOMAIN f THEN f[k] ELSE 0) + 1 ELSE f[x]]

\* processTransaction waiting on every hash it is given, watched already or not
processTransactionAgain(watcher, txInfo) ==
  IF txInfo.txHash = NoHash THEN watcher
  ELSE [watcher EXCEPT !.watching = @ \cup {txInfo.txHash}, !.waiting = @ \cup {txInfo},
                       !.waits = Increment(@, txInfo.txHash)]

\* TransactionWatcher.processTransaction up to its await
processTransaction(watcher, txInfo) ==
  IF txInfo.txHash = NoHash \/ txInfo.txHash \in watcher.watching THEN watcher
  ELSE [watcher EXCEPT !.watching = @ \cup {txInfo.txHash}, !.waiting = @ \cup {txInfo},
                       !.waits = Increment(@, txInfo.txHash)]

\* TransactionWatcher.processTransactions
RECURSIVE processTransactions(_, _)
processTransactions(watcher, transactions) ==
  IF transactions = <<>> THEN watcher
  ELSE processTransactions(processTransaction(watcher, Head(transactions)), Tail(transactions))

\* new TransactionWatcher(client, onUpdate): processExistingTransactions
NewWatcher(store) == processTransactions(NoWatcher, store)

\* TransactionWatcher.cleanup: every AbortController is aborted
watcherCleanup(watcher) == [watcher EXCEPT !.aborted = TRUE]

\* handleMutationUpdate after its onUpdate(mutation) call: localStorage and the watchers
handleMutationUpdate(info, store, ws, gw) ==
  IF info.txHash = NoHash THEN [storage |-> store, watchers |-> ws]
  ELSE CASE info.status = "signed" ->
              [storage |-> Append(store, TxInfo(info.id, info.txHash)),
               watchers |-> IF gw = 0 THEN ws
                            ELSE [ws EXCEPT ![gw] =
                                    processTransaction(@, TxInfo(info.id, info.txHash))]]
         [] info.status \in {"success", "error"} ->
              [storage |-> SelectSeq(store, LAMBDA t : t # TxInfo(info.id, info.txHash)),
               watchers |-> ws]
         [] OTHER -> [storage |-> store, watchers |-> ws]

\* the update a watcher makes when the receipt arrives, if it makes one
ReceiptUpdate(watcher, g, txInfo, succeeded) ==
  IF txInfo.txHash \in watcher.watching
  THEN <<MutationInfo(txInfo.id, IF succeeded THEN "success" ELSE "error",
                      IF succeeded THEN UndefinedValue ELSE Error("Transaction failed"),
                      txInfo.txHash, g, TRUE, watcher.aborted)>>
  ELSE <<>>

(***************************************************************************)
(* ContextQueryProvider: the blocks it follows and what it asks the        *)
(* executor (useReadContracts) for                                         *)
(***************************************************************************)
\* the subscriber of the provider's first effect: if (block > 0n) setBlockNumber(block)
setBlockNumber(blockNumber, block) == IF block > 0 THEN block ELSE blockNumber

\* what the provider hands to useReadContracts: query.calls and, once a real block is
\* known, that block (undefined before, for "latest")
ReadContractsParameters(calls, blockNumber) ==
  [contracts |-> calls,
   blockNumber |-> IF blockNumber # NoBlock /\ blockNumber > 0 THEN blockNumber ELSE NoBlock]

\* the watchBlocks argument of the provider's useRefetchOnBlockChange, undefined taking
\* the parameter's default
ContextWatch(watchBlocks, calls) == Truthy(watchBlocks) /\ Len(calls) # 0

\* its blocksRefetchInterval argument, undefined taking the parameter's default
ContextInterval(blocksRefetchInterval) ==
  IF blocksRefetchInterval = UndefinedValue THEN 1 ELSE blocksRefetchInterval.value

\* a read the executor makes because of a block: refetch() called by the scheduler, or
\* the blockNumber parameter of a read with contracts having changed (another parameter
\* is another read to useReadContracts); previous is the block of the read before it
\* since the scheduler subscribed
BlockRead(by, block, previous) == [by |-> by, block |-> block, previous |-> previous]

(***************************************************************************)
(* ContextQueryProvider: from useReadContracts to onResult                 *)
(***************************************************************************)

\* the onResult effect running after the first render only
OnResultEffectOnMount(firstRender, resultChanged) == firstRender

\* useEffect(() => queryManager.onResult(result, query.version), [result]): the effect
\* runs after the first render and after every render whose result is another object
OnResultEffect(firstRender, resultChanged) == firstRender \/ resultChanged

\* what useReadContracts returns while it has no data for its contracts: nothing to read
\* for an empty list, the first fetch in flight otherwise
IdleResult ==
  [isLoading |-> FALSE, isError |-> FALSE, data |-> UndefinedValue, error |-> NullValue]

PendingResult(calls) == IF calls = <<>> THEN IdleResult ELSE InitialResult

\* what it returns once the read of its contracts has ended
CompletedResult(data, error) ==
  [isLoading |-> FALSE, isError |-> error # NullValue, data |-> data, error |-> error]

\* the data a read of these contracts can return: the values of any round
ReadData(calls) == {Array(ExecData(calls, round, 0)) : round \in 1..MaxRounds}

\* the results a render can start from when query.calls is another list: no data yet, or
\* the data the cache holds for these contracts
RenderResults(calls) ==
  {PendingResult(calls)}
    \cup (IF calls = <<>> THEN {}
          ELSE {CompletedResult(data, NullValue) : data \in ReadData(calls)})

(***************************************************************************)
(* State machine                                                           *)
(***************************************************************************)
InitialQuery == [version |-> 0, count |-> EmptyCount, calls |-> <<>>]

Init ==
  /\ queries = EmptyCount
  /\ activeQueries = <<>>
  /\ currGlobal = InitialQuery
  /\ version = 0
  /\ queryId = 0
  /\ addressResolver \in Resolvers
  /\ providerQuery = InitialQuery
  /\ hooks = [h \in Hooks |-> Unmounted]
  /\ fired = <<>>
  /\ last = [op |-> "init"]
  /\ issued = <<>>
  /\ removedIds = {}
  /\ recomputations = 0
  /\ subscribers = <<>>
  /\ currentBlock = NoBlock
  /\ subscriptions = <<>>
  /\ delivered = <<>>
  /\ scheduler = NoScheduler
  /\ iteratorProps = NoIterator
  /\ asyncOut = NoCall
  /\ mutation = NoMutation
  /\ clock = 0
  /\ sends = <<>>
  /\ watchers = <<>>
  /\ globalWatcher = 0
  /\ storage = <<>>
  /\ contextBlocks = NoContext
  /\ executor = NoExecutor
  /\ providerState = NoProvider

\* the tail of addQuery, removeQuery and setAddressResolver: this.aggregateQueries()
AggregateQueries(qs, resolver) ==
  LET agg == aggregateQueries(qs, resolver, version, currGlobal)
  IN /\ version' = agg.version
     /\ currGlobal' = agg.currGlobal
     /\ providerQuery' = IF agg.onUpdate = <<>> THEN providerQuery ELSE agg.onUpdate[1]
     /\ recomputations' = recomputations + 1
     /\ fired' = <<>>

\* the same where nothing follows the blocks
Aggregate(qs, resolver) ==
  /\ AggregateQueries(qs, resolver)
  /\ UNCHANGED <<blockVars, asyncVars, mutationVars>>

\* addQuery called directly (as the engine's tests do) with a callback of the caller's own
AddQuery(collection) ==
  /\ queryId < MaxQueries
  /\ version < MaxVersion
  /\ LET added == addQuery(queries, activeQueries, queryId,
                           [collection |-> collection, callBack |-> ToString(queryId)])
     IN /\ queries' = added.queries
        /\ activeQueries' = added.activeQueries
        /\ queryId' = added.queryId
        /\ Aggregate(added.queries, addressResolver)
        /\ issued' = Append(issued, added.id)
        /\ last' = [op |-> "addQuery", id |-> added.id]
  /\ UNCHANGED <<addressResolver, hooks, removedIds, providerState>>

\* removeQuery called directly with any id: registered, already removed or never issued
\* (a mounted component removes its own query in its cleanup only)
RemoveQuery(id) ==
  /\ version < MaxVersion
  /\ \A h \in Hooks : hooks[h].queryId # id
  /\ LET removed == removeQuery(queries, activeQueries, id)
     IN /\ queries' = removed.queries
        /\ activeQueries' = removed.activeQueries
        /\ Aggregate(removed.queries, addressResolver)
  /\ removedIds' = removedIds \cup ({id} \cap Range(issued))
  /\ last' = [op |-> "removeQuery", id |-> id, present |-> id \in Range(activeQueries)]
  /\ UNCHANGED <<queryId, addressResolver, hooks, issued, providerState>>

\* a component using useContextQuery(requests) renders for the first time
Mount(h, requests) ==
  /\ ~hooks[h].mounted
  /\ hooks' = [hooks EXCEPT ![h] = FirstRender("useContextQuery", requests)]
  /\ fired' = <<>>
  /\ last' = [op |-> "mount", hook |-> h]
  /\ UNCHANGED <<engineVars, providerQuery, issued, removedIds, recomputations>>
  /\ UNCHANGED <<blockVars, asyncVars, mutationVars, providerState>>

\* the effect of useContextQuery: queryManager.addQuery({collection, callBack: setResult})
Effect(h) ==
  /\ hooks[h].mounted
  /\ hooks[h].kind = "useContextQuery"
  /\ hooks[h].queryId = NoQuery
  /\ queryId < MaxQueries
  /\ version < MaxVersion
  /\ LET added == addQuery(queries, activeQueries, queryId,
                           [collection |-> hooks[h].requests, callBack |-> h])
     IN /\ queries' = added.queries
        /\ activeQueries' = added.activeQueries
        /\ queryId' = added.queryId
        /\ Aggregate(added.queries, addressResolver)
        /\ hooks' = [hooks EXCEPT ![h].queryId = added.id]
        /\ issued' = Append(issued, added.id)
        /\ last' = [op |-> "addQuery", id |-> added.id]
  /\ UNCHANGED <<addressResolver, removedIds, providerState>>

\* the component re-renders with different requests; the effect's cleanup removes the query
ChangeRequests(h, requests) ==
  /\ hooks[h].mounted
  /\ hooks[h].queryId # NoQuery
  /\ requests # hooks[h].requests
  /\ version < MaxVersion
  /\ LET removed == removeQuery(queries, activeQueries, hooks[h].queryId)
     IN /\ queries' = removed.queries
        /\ activeQueries' = removed.activeQueries
        /\ Aggregate(removed.queries, addressResolver)
  /\ hooks' = [hooks EXCEPT ![h] = [RenderHook(hooks[h], requests) EXCEPT !.queryId = NoQuery]]
  /\ removedIds' = removedIds \cup {hooks[h].queryId}
  /\ last' = [op |-> "removeQuery", id |-> hooks[h].queryId,
              present |-> hooks[h].queryId \in Range(activeQueries)]
  /\ UNCHANGED <<queryId, addressResolver, issued, providerState>>

\* the component unmounts; the effect's cleanup removes the query
Unmount(h) ==
  /\ hooks[h].mounted
  /\ hooks[h].queryId # NoQuery
  /\ version < MaxVersion
  /\ LET removed == removeQuery(queries, activeQueries, hooks[h].queryId)
     IN /\ queries' = removed.queries
        /\ activeQueries' = removed.activeQueries
        /\ Aggregate(removed.queries, addressResolver)
  /\ hooks' = [hooks EXCEPT ![h] = Unmounted]
  /\ removedIds' = removedIds \cup {hooks[h].queryId}
  /\ last' = [op |-> "removeQuery", id |-> hooks[h].queryId,
              present |-> hooks[h].queryId \in Range(activeQueries)]
  /\ UNCHANGED <<queryId, addressResolver, issued, providerState>>

SetAddressResolver(resolver) ==
  /\ version < MaxVersion
  /\ addressResolver' = resolver
  /\ Aggregate(queries, resolver)
  /\ last' = [op |-> "setAddressResolver"]
  /\ UNCHANGED <<queries, activeQueries, queryId, hooks, issued, removedIds, providerState>>

\* call lists of batches that were dispatched earlier and have been superseded since
StaleCall(fn) == [queryId |-> 0, abi |-> "abi", functionName |-> fn, args |-> <<>>,
                  address |-> "0xD"]
StaleCalls == {<<>>, <<StaleCall("b")>>, <<StaleCall("a"), StaleCall("c")>>}

\* onResult serving each query once: the queries it has called back are deregistered
OnResultOnce(result, v) ==
  LET invocations == onResult(result, v, currGlobal, activeQueries, queries)
      served == {invocations[j].queryId : j \in 1..Len(invocations)}
      length == IF result.data = UndefinedValue THEN -1 ELSE Len(result.data.items)
  IN /\ (v = currGlobal.version /\ length = Len(currGlobal.calls))
          => IsAnswer(currGlobal.calls, result.data)
     /\ fired' = invocations
     /\ hooks' = SetResults(hooks, invocations)
     /\ queries' = [k \in DOMAIN queries \ served |-> queries[k]]
     /\ activeQueries' = SelectSeq(activeQueries, LAMBDA id : id \notin served)
     /\ last' = [op |-> "onResult", version |-> v, result |-> result]
     /\ UNCHANGED <<currGlobal, version, queryId, addressResolver>>
     /\ UNCHANGED <<providerQuery, issued, removedIds, recomputations>>
     /\ UNCHANGED <<blockVars, asyncVars, mutationVars, providerState>>

\* the provider's effect: queryManager.onResult(result, version). The data of a result is
\* the executor's answer, in some round, to the calls of the current batch or of an earlier
\* one; a completion of the current version never carries another batch of the same size
OnResult(result, v) ==
  LET invocations == onResult(result, v, currGlobal, activeQueries, queries)
      length == IF result.data = UndefinedValue THEN -1 ELSE Len(result.data.items)
  IN /\ (v = currGlobal.version /\ length = Len(currGlobal.calls))
          => IsAnswer(currGlobal.calls, result.data)
     /\ fired' = invocations
     /\ hooks' = SetResults(hooks, invocations)
     /\ last' = [op |-> "onResult", version |-> v, result |-> result]
     /\ UNCHANGED <<engineVars, providerQuery, issued, removedIds, recomputations>>
     /\ UNCHANGED <<blockVars, asyncVars, mutationVars, providerState>>

\* a component using useQuery(requests) renders for the first time: useReadContracts
\* has nothing yet for its calls
MountQuery(h, requests) ==
  /\ ~hooks[h].mounted
  /\ hooks' = [hooks EXCEPT ![h] = FirstRender("useQuery", requests)]
  /\ fired' = <<>>
  /\ last' = [op |-> "mount", hook |-> h]
  /\ UNCHANGED <<engineVars, providerQuery, issued, removedIds, recomputations>>
  /\ UNCHANGED <<blockVars, asyncVars, mutationVars, providerState>>

\* the calls useQuery hands to useReadContracts
QueryCalls(requests, resolver) ==
  [i \in 1..Len(requests) |->
     [abi |-> "abi", functionName |-> requests[i].req.method, args |-> requests[i].req.args,
      address |-> ResolveAddress(requests[i].req, resolver)]]

\* useReadContracts hands useQuery a new result for its calls, and the component re-renders
QueryResult(h, result) ==
  /\ hooks[h].mounted
  /\ hooks[h].kind = "useQuery"
  /\ result # hooks[h].result
  /\ hooks' = [hooks EXCEPT ![h] = RenderHook([hooks[h] EXCEPT !.result = result],
                                              hooks[h].requests)]
  /\ fired' = <<>>
  /\ last' = [op |-> "render", hook |-> h]
  /\ UNCHANGED <<engineVars, providerQuery, issued, removedIds, recomputations>>
  /\ UNCHANGED <<blockVars, asyncVars, mutationVars, providerState>>

\* a component using useQuery unmounts
UnmountQuery(h) ==
  /\ hooks[h].mounted
  /\ hooks[h].kind = "useQuery"
  /\ hooks' = [hooks EXCEPT ![h] = Unmounted]
  /\ fired' = <<>>
  /\ last' = [op |-> "unmount", hook |-> h]
  /\ UNCHANGED <<engineVars, providerQuery, issued, removedIds, recomputations>>
  /\ UNCHANGED <<blockVars, asyncVars, mutationVars, providerState>>

\* React re-renders a component whose setResult was called
Render(h) ==
  /\ hooks[h].mounted
  /\ hooks[h].pending
  /\ hooks' = [hooks EXCEPT ![h] = RenderHook(hooks[h], hooks[h].requests)]
  /\ fired' = <<>>
  /\ last' = [op |-> "render", hook |-> h]
  /\ UNCHANGED <<engineVars, providerQuery, issued, removedIds, recomputations>>
  /\ UNCHANGED <<blockVars, asyncVars, mutationVars, providerState>>

Errors == {NullValue, Error("transport")}

\* onResult called directly: late and repeated completions of superseded batches included
OnResultAny ==
  \E data \in {UndefinedValue} \cup Answers(currGlobal.calls)
                \cup {Array(ExecData(calls, 1, 0)) : calls \in StaleCalls},
     v \in {version - 1, version, version + 1} \cap Nat,
     isLoading \in BOOLEAN, error \in Errors :
     OnResult([isLoading |-> isLoading, isError |-> error # NullValue,
               data |-> data, error |-> error], v)

\* ContextQueryProvider's effect: onResult(result, query.version) with the result
\* useReadContracts has for query.calls
OnResultProvider ==
  \E data \in {UndefinedValue} \cup Answers(providerQuery.calls),
     isLoading \in BOOLEAN, error \in Errors :
     OnResult([isLoading |-> isLoading, isError |-> error # NullValue,
               data |-> data, error |-> error], providerQuery.version)

\* ContextQueryProvider's effect with a result that has no top-level error: any one
\* call of the batch, or none, has reverted
OnResultPartial ==
  \E data \in AnswersAt(providerQuery.calls) :
     OnResult([isLoading |-> FALSE, isError |-> FALSE, data |-> data, error |-> NullValue],
              providerQuery.version)

\* what the other components under the same provider ask for
OtherCollections == {<<Entry("x", ReqA)>>, <<Entry("x", ReqB), Entry("y", ReqC)>>}

\* the engine driven through its own interface
Next ==
  \/ \E collection \in Collections : AddQuery(collection)
  \/ \E id \in 0..MaxQueries : RemoveQuery(id)
  \/ \E resolver \in Resolvers : SetAddressResolver(resolver)
  \/ OnResultAny

Spec == Init /\ [][Next]_vars

\* the engine driven by a component that uses useContextQuery, under ContextQueryProvider
NextHooks ==
  \/ \E h \in Hooks, requests \in Collections : Mount(h, requests)
  \/ \E h \in Hooks : Effect(h)
  \/ \E h \in Hooks, requests \in Collections : ChangeRequests(h, requests)
  \/ \E h \in Hooks : Unmount(h)
  \/ OnResultProvider
  \/ \E h \in Hooks, requests \in Collections : MountQuery(h, requests)
  \/ \E h \in Hooks :
       \E isLoading \in BOOLEAN, error \in Errors,
          data \in {UndefinedValue}
                   \cup Answers(QueryCalls(hooks[h].requests, addressResolver)) :
          QueryResult(h, [isLoading |-> isLoading, isError |-> error # NullValue,
                          data |-> data, error |-> error])
  \/ \E h \in Hooks : UnmountQuery(h)
  \/ \E h \in Hooks : Render(h)

SpecHooks == Init /\ [][NextHooks]_vars

\* a component that uses useContextQuery sharing the provider's batch with queries
\* registered by others
NextBatch ==
  \/ \E h \in Hooks, requests \in Collections : Mount(h, requests)
  \/ \E h \in Hooks : Effect(h)
  \/ \E collection \in OtherCollections : AddQuery(collection)
  \/ OnResultPartial
  \/ \E h \in Hooks : Render(h)

SpecBatch == Init /\ [][NextBatch]_vars

\* a request that carries neither an address nor a deploy address
ReqN == Request("V", "n", Undefined, Undefined, Default("n"))

\* what the callers of the async package and of addQuery may ask for
AsyncCollections ==
  { <<Entry("x", ReqA)>>,
    <<Entry("x", ReqB), Entry("n", ReqN)>> }

\* await query(client, requests, {}, addressResolver)
AsyncQuery(requests, resolver, outcome) ==
  /\ asyncOut' = [op |-> "query", requests |-> requests, outcome |-> outcome,
                  resolver |-> resolver, consulted |-> Consulted(requests, resolver),
                  call |-> query(requests, resolver, outcome)]
  /\ last' = [op |-> "query"]
  /\ UNCHANGED <<queryVars, blockVars, iteratorProps, executor, mutationVars, providerState>>

\* the mutations the callers write with
MutationConfigs == {MutationConfig("T", "setValue", "0xD"), MutationConfig("U", "mint", "0xE")}

\* the address option of mutate and of useMutation
AddressOptions == {Undefined, "0xA"}

\* mutate(client, mutation, {address, addressResolver})(...args)
AsyncMutate(connected, config, address, resolver) ==
  /\ asyncOut' = [op |-> "mutate", config |-> config, address |-> address,
                  resolver |-> resolver, call |-> mutate(connected, config, address, resolver)]
  /\ last' = [op |-> "mutate"]
  /\ UNCHANGED <<queryVars, blockVars, iteratorProps, executor, mutationVars, providerState>>

\* a component renders useMutation(config, {address}) under a provider with this resolver
UseMutationAddress(config, address, resolver) ==
  /\ asyncOut' = [op |-> "useMutation", config |-> config, address |-> address,
                  resolver |-> resolver,
                  call |-> useMutationAddress(config, address, resolver)]
  /\ last' = [op |-> "useMutation"]
  /\ UNCHANGED <<queryVars, blockVars, iteratorProps, executor, mutationVars, providerState>>

\* the engine and the async package given requests whose address may not resolve
NextAsync ==
  \/ \E collection \in AsyncCollections : AddQuery(collection)
  \/ \E resolver \in Resolvers : SetAddressResolver(resolver)
  \/ \E requests \in AsyncCollections, resolver \in Resolvers :
       \E outcome \in MulticallOutcomes(MulticallContracts(requests, resolver)) :
         AsyncQuery(requests, resolver, outcome)
  \/ \E connected \in BOOLEAN, config \in MutationConfigs, address \in AddressOptions,
        resolver \in Resolvers :
       AsyncMutate(connected, config, address, resolver)
  \/ \E config \in MutationConfigs, address \in AddressOptions, resolver \in Resolvers :
       UseMutationAddress(config, address, resolver)

SpecAsync == Init /\ [][NextAsync]_vars

\* the functions the notifier's direct callers subscribe with (none of them calls back
\* into the notifier)
Callbacks == {"cb1", "cb2"}

\* block numbers the upstream watcher reports; 0 stands for no real block
Blocks == 0..MaxBlock

\* manager.subscribe(callback), the returned function being kept by the caller
Subscribe(callback) ==
  /\ Len(subscriptions) < MaxSubscriptions
  /\ LET out == subscribe(subscribers, currentBlock, callback)
     IN /\ subscribers' = out.subscribers
        /\ delivered' = out.invoked
  /\ subscriptions' = Append(subscriptions,
                              [callback |-> callback, closed |-> FALSE, cut |-> FALSE])
  /\ last' = [op |-> "subscribe", callback |-> callback]
  /\ UNCHANGED <<currentBlock, scheduler, contextBlocks, queryVars, asyncVars, mutationVars,
               providerState>>

\* the function returned by the n-th subscribe call is called, for the first time or again
Unsubscribe(n) ==
  /\ n \in 1..Len(subscriptions)
  /\ subscribers' = unsubscribe(subscribers, subscriptions[n].callback)
  /\ subscriptions' = MarkClosed(subscriptions, n)
  /\ delivered' = <<>>
  /\ last' = [op |-> "unsubscribe", subscription |-> n, again |-> subscriptions[n].closed]
  /\ UNCHANGED <<currentBlock, scheduler, contextBlocks, queryVars, asyncVars, mutationVars,
               providerState>>

\* the upstream watcher reports a block: manager.onBlockUpdated(newBlock)
OnBlockUpdated(newBlock) ==
  /\ LET out == onBlockUpdated(subscribers, newBlock)
     IN /\ currentBlock' = out.currentBlock
        /\ delivered' = out.invoked
        /\ scheduler' = Notified(scheduler, out.invoked)
  /\ last' = [op |-> "onBlockUpdated", block |-> newBlock]
  /\ UNCHANGED <<subscribers, subscriptions, contextBlocks, queryVars, asyncVars, mutationVars,
               providerState>>

\* the notifier driven through its own interface
NextBlocks ==
  \/ \E callback \in Callbacks : Subscribe(callback)
  \/ \E n \in 1..MaxSubscriptions : Unsubscribe(n)
  \/ \E newBlock \in Blocks : OnBlockUpdated(newBlock)

SpecBlocks == Init /\ [][NextBlocks]_vars

Unset == UndefinedValue

\* the options the component may pass to useQuery
OptionSets ==
  {QueryOptions(watchBlocks, Unset, Unset, Unset, Unset, Unset) :
     watchBlocks \in {Unset, Bool(TRUE), Bool(FALSE)}}
  \cup {QueryOptions(Bool(TRUE), paused, Unset, Unset, Unset, blocksRefetchInterval) :
          paused \in {Unset, Bool(TRUE)}, blocksRefetchInterval \in {Unset, Number(2)}}
  \cup {QueryOptions(Unset, Unset, isStatic, blockNumber, refetchInterval, Unset) :
          isStatic \in {Unset, Bool(TRUE)}, blockNumber \in {Unset, BigInt(0), BigInt(5)},
          refetchInterval \in {Unset, Number(1000)}}

\* what DappQLProvider puts in the context
ProviderSettings ==
  {[watchBlocks |-> watchBlocks, blocksRefetchInterval |-> Number(1)] :
     watchBlocks \in {Unset, Bool(TRUE)}}

\* a render of the component with these options under this provider, and the effect of
\* useRefetchOnBlockChange after it: when a dependency differs the cleanup of the former
\* run, then the new run, which subscribes when watchBlocks is set
Commit(options, provider) ==
  LET watch == WatchArgument(options, provider)
      interval == IntervalArgument(options, provider)
      rerun == ~scheduler.mounted \/ scheduler.deps # <<watch, interval>>
      old == scheduler.closure
      cleaned == cleanup(subscribers, old)
      log == IF old = NoClosure THEN subscriptions
             ELSE MarkClosed(subscriptions, old.subscription)
      fresh == NewClosure(Len(subscriptions) + 1, interval)
      sub == subscribe(cleaned, currentBlock, fresh.callback)
      ran == IF sub.invoked = <<>> THEN [closure |-> fresh, observed |-> <<>>]
             ELSE LET o == Observe(fresh, currentBlock)
                  IN [closure |-> o.closure, observed |-> <<o.observed>>]
  IN /\ (rerun /\ watch) => Len(subscriptions) < MaxSubscriptions
     /\ subscribers' = IF ~rerun THEN subscribers
                       ELSE IF watch THEN sub.subscribers ELSE cleaned
     /\ subscriptions' =
          IF ~rerun THEN subscriptions
          ELSE IF watch
               THEN Append(log, [callback |-> fresh.callback, closed |-> FALSE, cut |-> FALSE])
               ELSE log
     /\ delivered' = IF rerun /\ watch THEN sub.invoked ELSE <<>>
     /\ scheduler' =
          [mounted |-> TRUE, options |-> options, provider |-> provider,
           deps |-> <<watch, interval>>,
           closure |-> IF ~rerun THEN old ELSE IF watch THEN ran.closure ELSE NoClosure,
           observed |-> IF rerun /\ watch THEN ran.observed ELSE <<>>,
           released |-> IF rerun /\ old # NoClosure THEN <<old.subscription>> ELSE <<>>]
     /\ UNCHANGED <<currentBlock, contextBlocks, queryVars, asyncVars, mutationVars,
                    providerState>>

\* the component mounts
MountScheduler(options, provider) ==
  /\ ~scheduler.mounted
  /\ Commit(options, provider)
  /\ last' = [op |-> "mount"]

\* the component renders again with other options, or the provider's settings change
RenderScheduler(options, provider) ==
  /\ scheduler.mounted
  /\ <<options, providerState>> # <<scheduler.options, scheduler.provider>>
  /\ Commit(options, provider)
  /\ last' = [op |-> "render"]

\* the component unmounts: the cleanup of the last effect run
UnmountScheduler ==
  /\ scheduler.mounted
  /\ subscribers' = cleanup(subscribers, scheduler.closure)
  /\ subscriptions' = IF scheduler.closure = NoClosure THEN subscriptions
                      ELSE MarkClosed(subscriptions, scheduler.closure.subscription)
  /\ delivered' = <<>>
  /\ scheduler' = Idle(IF scheduler.closure = NoClosure THEN <<>>
                       ELSE <<scheduler.closure.subscription>>)
  /\ last' = [op |-> "unmount"]
  /\ UNCHANGED <<currentBlock, contextBlocks, queryVars, asyncVars, mutationVars, providerState>>

\* a component that uses useQuery, under a provider whose notifier reports blocks
NextScheduler ==
  \/ \E options \in OptionSets, provider \in ProviderSettings : MountScheduler(options, provider)
  \/ \E options \in OptionSets, provider \in ProviderSettings : RenderScheduler(options, provider)
  \/ UnmountScheduler
  \/ \E newBlock \in Blocks : OnBlockUpdated(newBlock)

SpecScheduler == Init /\ [][NextScheduler]_vars

\* a component using useIteratorContextQuery or useIteratorQuery renders for the first
\* time: buildIteratorQuery, then useContextQuery or useQuery with what it built
MountIterator(h, kind, total, firstIndex) ==
  /\ ~hooks[h].mounted
  /\ hooks' = [hooks EXCEPT ![h] = FirstRender(kind, buildIteratorQuery(total, firstIndex))]
  /\ iteratorProps' = [total |-> total, firstIndex |-> firstIndex]
  /\ fired' = <<>>
  /\ last' = [op |-> "mount", hook |-> h]
  /\ UNCHANGED <<engineVars, providerQuery, issued, removedIds, recomputations>>
  /\ UNCHANGED <<blockVars, asyncOut, executor, mutationVars, providerState>>

\* ContextQueryProvider's effect with the executor's answer to the batch of an iterator
OnResultIterator ==
  \E data \in IteratorAnswers(providerQuery.calls) :
     OnResult([isLoading |-> FALSE, isError |-> FALSE, data |-> data, error |-> NullValue],
              providerQuery.version)

\* await iteratorQuery(client, total, getItem, {firstIndex}, addressResolver)
AsyncIteratorQuery(total, firstIndex, resolver, outcome) ==
  /\ asyncOut' = [op |-> "iteratorQuery", total |-> total, firstIndex |-> firstIndex,
                  outcome |-> IF total = 0 THEN NoCall ELSE outcome,
                  call |-> iteratorQuery(total, firstIndex, resolver, outcome)]
  /\ last' = [op |-> "iteratorQuery"]
  /\ UNCHANGED <<queryVars, blockVars, iteratorProps, executor, mutationVars, providerState>>

\* iterator queries: a component using one of the hooks, and callers of iteratorQuery
NextIterator ==
  \/ \E h \in Hooks, kind \in {"useContextQuery", "useQuery"},
        total \in 0..MaxTotal, firstIndex \in 0..MaxFirstIndex :
       MountIterator(h, kind, total, firstIndex)
  \/ \E h \in Hooks : Effect(h)
  \/ OnResultIterator
  \/ \E h \in Hooks : Render(h)
  \/ \E h \in Hooks :
       \E data \in IteratorAnswers(QueryCalls(hooks[h].requests, addressResolver)) :
         QueryResult(h, [isLoading |-> FALSE, isError |-> FALSE, data |-> data,
                         error |-> NullValue])
  \/ \E total \in 0..MaxTotal, firstIndex \in 0..MaxFirstIndex :
       \E outcome \in {[status |-> "fulfilled", results |-> answer.items] :
                         answer \in IteratorAnswers(MulticallContracts(
                                      buildIteratorQuery(total, firstIndex), addressResolver))} :
         AsyncIteratorQuery(total, firstIndex, addressResolver, outcome)

SpecIterator == Init /\ [][NextIterator]_vars

\* the resolvers an AddressResolverComponent may report
Reported == {"r1", "r2"}

\* Provider renders for the first time, with an AddressResolverComponent or with an
\* addressResolver prop (which may be missing), never with both; when it renders its
\* children, ContextQueryProvider builds its manager with the context's resolver and its
\* effect calls setAddressResolver
RenderProvider(component, resolver) ==
  /\ ~providerState.mounted
  /\ component => resolver = Undefined
  /\ providerState' = RenderedProvider(component, resolver)
  /\ IF RendersChildren(component, resolver)
     THEN /\ version < MaxVersion
          /\ addressResolver' = resolver
          /\ Aggregate(queries, resolver)
          /\ last' = [op |-> "setAddressResolver"]
          /\ UNCHANGED <<queries, activeQueries, queryId, hooks, issued, removedIds>>
     ELSE /\ last' = [op |-> "renderProvider"]
          /\ fired' = <<>>
          /\ UNCHANGED <<engineVars, providerQuery, hooks, issued, removedIds, recomputations>>
          /\ UNCHANGED <<blockVars, asyncVars, mutationVars>>

\* the AddressResolverComponent calls onResolved(resolver): setAddressResolver({resolver}),
\* Provider renders again and ContextQueryProvider's effect hands the resolver to the manager
OnResolved(resolver) ==
  /\ providerState.mounted
  /\ providerState.component
  /\ resolver # providerState.resolver
  /\ version < MaxVersion
  /\ providerState' = RenderedProvider(providerState.component, resolver)
  /\ addressResolver' = resolver
  /\ Aggregate(queries, resolver)
  /\ last' = [op |-> "onResolved", resolver |-> resolver]
  /\ UNCHANGED <<queries, activeQueries, queryId, hooks, issued, removedIds>>

\* a child of Provider that uses useContextQuery renders for the first time
ChildMount(h, requests) ==
  /\ providerState.mounted
  /\ providerState.children
  /\ Mount(h, requests)

\* the effect of that child
ChildEffect(h) ==
  /\ providerState.mounted
  /\ providerState.children
  /\ Effect(h)

\* ContextQueryProvider, itself a child of Provider, gets the executor's answer
ChildOnResult ==
  /\ providerState.mounted
  /\ providerState.children
  /\ OnResultPartial

\* Provider with the components it renders
NextProvider ==
  \/ \E component \in BOOLEAN, resolver \in Resolvers : RenderProvider(component, resolver)
  \/ \E resolver \in Reported : OnResolved(resolver)
  \/ \E h \in Hooks, requests \in OtherCollections : ChildMount(h, requests)
  \/ \E h \in Hooks : ChildEffect(h)
  \/ ChildOnResult
  \/ \E h \in Hooks : Render(h)

SpecProvider == Init /\ [][NextProvider]_vars

\* every variable the mutation actions leave alone
NotMutation == <<queryVars, blockVars, asyncVars, providerState>>

\* a component using useMutation renders under a Provider with an onMutationUpdate prop;
\* the effect of useTransactionUpdates creates the watcher when there is a client
MountMutation(simulate, simulateMutations, client) ==
  /\ mutation = NoMutation
  /\ mutation' = [mounted |-> TRUE, started |-> TRUE, simulate |-> simulate,
                  simulateMutations |-> simulateMutations, client |-> client]
  /\ IF client
     THEN /\ watchers' = Append(watchers, NewWatcher(storage))
          /\ globalWatcher' = Len(watchers) + 1
     ELSE UNCHANGED <<watchers, globalWatcher>>
  /\ last' = [op |-> "mountMutation"]
  /\ UNCHANGED <<clock, sends, storage, NotMutation>>

\* the provider's client or its onMutationUpdate prop changes: the effect's cleanup runs
\* and the effect creates a new watcher
RenewWatcher ==
  /\ mutation.mounted
  /\ globalWatcher # 0
  /\ Len(watchers) < MaxWatchers
  /\ watchers' = Append([watchers EXCEPT ![globalWatcher] = watcherCleanup(@)],
                        NewWatcher(storage))
  /\ globalWatcher' = Len(watchers) + 1
  /\ last' = [op |-> "renewWatcher"]
  /\ UNCHANGED <<mutation, clock, sends, storage, NotMutation>>

\* the provider unmounts: the effect's cleanup runs
UnmountMutation ==
  /\ mutation.mounted
  /\ mutation' = [mutation EXCEPT !.mounted = FALSE]
  /\ watchers' = IF globalWatcher = 0 THEN watchers
                 ELSE [watchers EXCEPT ![globalWatcher] = watcherCleanup(@)]
  /\ globalWatcher' = 0
  /\ last' = [op |-> "unmountMutation"]
  /\ UNCHANGED <<clock, sends, storage, NotMutation>>

\* a millisecond passes
Tick ==
  /\ clock < MaxClock
  /\ clock' = clock + 1
  /\ last' = [op |-> "tick"]
  /\ UNCHANGED <<mutation, sends, watchers, globalWatcher, storage, NotMutation>>

\* mutation.send(...args) with the account and the chain useAccount gives at that time
Send(account, chain) ==
  /\ mutation.mounted
  /\ Len(sends) < MaxSends
  /\ LET id == MutationId(clock)
         simulateFirst == SimulateFirst(mutation.simulate, mutation.simulateMutations,
                                        mutation.client)
         done == send(account, chain, simulateFirst, id, mutation.client)
     IN sends' = Append(sends,
                        [id |-> id, account |-> account, chain |-> chain,
                         simulation |-> IF done.stage = "simulating" THEN "pending" ELSE "none",
                         stage |-> done.stage, wrote |-> done.wrote,
                         updates |-> done.updates])
  /\ last' = [op |-> "send", send |-> Len(sends) + 1]
  /\ UNCHANGED <<mutation, clock, watchers, globalWatcher, storage, NotMutation>>

\* the promise of simulate(...args) settles: .then(sendTx) or the .catch handler
SimulationSettles(n, succeeded) ==
  /\ n \in 1..Len(sends)
  /\ sends[n].stage = "simulating"
  /\ sends' = [sends EXCEPT ![n] =
       IF succeeded
       THEN [@ EXCEPT !.simulation = "succeeded",
                      !.stage = "submitted", !.wrote = TRUE,
                      !.updates = @ \o sendTx(sends[n].id, mutation.client).updates]
       ELSE [@ EXCEPT !.simulation = "failed", !.stage = "failed",
                      !.updates = Append(@, MutationInfo(sends[n].id, "error",
                                                         Error("simulation"), NoHash, 0,
                                                         mutation.client, FALSE))]]
  /\ last' = [op |-> "simulationSettles", send |-> n]
  /\ UNCHANGED <<mutation, clock, watchers, globalWatcher, storage, NotMutation>>

\* onSettled(data, error) of tx.writeContract: the wallet signed and gave the hash, or
\* refused; the update goes through useTransactionUpdates' callback
WriteSettles(n, succeeded) ==
  /\ n \in 1..Len(sends)
  /\ sends[n].stage = "submitted"
  /\ LET info == IF succeeded
                 THEN MutationInfo(sends[n].id, "signed", UndefinedValue, n, 0,
                                   mutation.client, FALSE)
                 ELSE MutationInfo(sends[n].id, "error", Error("wallet"), NoHash, 0,
                                   mutation.client, FALSE)
         handled == IF mutation.client
                    THEN handleMutationUpdate(info, storage, watchers, globalWatcher)
                    ELSE [storage |-> storage, watchers |-> watchers]
     IN /\ sends' = [sends EXCEPT ![n] =
                       [@ EXCEPT !.stage = IF succeeded THEN "signed" ELSE "failed",
                                 !.updates = Append(@, info)]]
        /\ storage' = handled.storage
        /\ watchers' = handled.watchers
  /\ last' = [op |-> "writeSettles", send |-> n]
  /\ UNCHANGED <<mutation, clock, globalWatcher, NotMutation>>

\* waitForTransactionReceipt resolves for a watcher: processTransaction after its await
ReceiptArrives(g, txInfo, succeeded) ==
  /\ g \in 1..Len(watchers)
  /\ txInfo \in watchers[g].waiting
  /\ LET made == ReceiptUpdate(watchers[g], g, txInfo, succeeded)
         handled == IF made = <<>> THEN [storage |-> storage, watchers |-> watchers]
                    ELSE handleMutationUpdate(made[1], storage, watchers, globalWatcher)
     IN /\ storage' = handled.storage
        /\ watchers' = [handled.watchers EXCEPT
                          ![g].waiting = @ \ {txInfo},
                          ![g].emitted = IF made = <<>> THEN @
                                         ELSE Increment(@, txInfo.txHash)]
        /\ last' = [op |-> "receipt", watcher |-> g, txHash |-> txInfo.txHash,
                    succeeded |-> succeeded, updates |-> made]
  /\ UNCHANGED <<mutation, clock, sends, globalWatcher, NotMutation>>

\* waitForTransactionReceipt rejects for a watcher: the catch block, which only logs
WaitFails(g, txInfo) ==
  /\ g \in 1..Len(watchers)
  /\ txInfo \in watchers[g].waiting
  /\ watchers' = [watchers EXCEPT ![g].waiting = @ \ {txInfo}]
  /\ last' = [op |-> "waitFails", watcher |-> g, txHash |-> txInfo.txHash]
  /\ UNCHANGED <<mutation, clock, sends, globalWatcher, storage, NotMutation>>

\* what useMutation may be given as options.simulate and the provider as simulateMutations
SimulateOptions == {Unset, Bool(TRUE), Bool(FALSE)}

\* the infos of the transactions sent so far
TxInfos == {TxInfo(sends[n].id, n) : n \in 1..Len(sends)}

\* a component sending writes under every setting of simulation, with the one watcher
\* of its provider
NextMutation ==
  \/ \E simulate \in SimulateOptions, simulateMutations \in {Unset, Bool(TRUE)},
        client \in BOOLEAN :
       MountMutation(simulate, simulateMutations, client)
  \/ Tick
  \/ \E account \in BOOLEAN, chain \in BOOLEAN : Send(account, chain)
  \/ \E n \in 1..MaxSends, succeeded \in BOOLEAN : SimulationSettles(n, succeeded)
  \/ \E n \in 1..MaxSends, succeeded \in BOOLEAN : WriteSettles(n, succeeded)
  \/ \E g \in 1..MaxWatchers, txInfo \in TxInfos, succeeded \in BOOLEAN :
       ReceiptArrives(g, txInfo, succeeded)

SpecMutation == Init /\ [][NextMutation]_vars

\* a component sending writes while its provider replaces its watcher or unmounts
NextWatcher ==
  \/ MountMutation(Unset, Unset, TRUE)
  \/ RenewWatcher
  \/ UnmountMutation
  \/ Send(TRUE, TRUE)
  \/ \E n \in 1..MaxSends : WriteSettles(n, TRUE)
  \/ \E g \in 1..MaxWatchers, txInfo \in TxInfos : ReceiptArrives(g, txInfo, TRUE)
  \/ \E g \in 1..MaxWatchers, txInfo \in TxInfos : WaitFails(g, txInfo)

SpecWatcher == Init /\ [][NextWatcher]_vars

\* the update callback useTransactionUpdates returns is called once more with the
\* 'signed' update of a write that was signed
SignedAgain(n) ==
  /\ n \in 1..Len(sends)
  /\ sends[n].stage = "signed"
  /\ mutation.mounted
  /\ mutation.client
  /\ Len(storage) < MaxStored
  /\ LET info == MutationInfo(sends[n].id, "signed", UndefinedValue, n, 0, TRUE, FALSE)
         handled == handleMutationUpdate(info, storage, watchers, globalWatcher)
     IN /\ storage' = handled.storage
        /\ watchers' = handled.watchers
  /\ last' = [op |-> "signedAgain", send |-> n]
  /\ UNCHANGED <<mutation, clock, sends, globalWatcher, NotMutation>>

\* a transaction another tab has signed
OtherTab == TxInfo("0x123setValue9", 9)

\* the 'storage' event of another tab's 'signed' update, which has appended its own
\* transaction to what it read: handleStorageChange of the watcher whose listener is
\* registered (this tab's localStorage is not followed beyond the event)
StorageEvent ==
  /\ globalWatcher # 0
  /\ watchers' = [watchers EXCEPT ![globalWatcher] =
                    processTransactions(@, Append(storage, OtherTab))]
  /\ last' = [op |-> "storageEvent", watcher |-> globalWatcher]
  /\ UNCHANGED <<mutation, clock, sends, globalWatcher, storage, NotMutation>>

\* the component's first send
FirstSend ==
  /\ sends = <<>>
  /\ Send(TRUE, TRUE)

\* one provider's watchers told of the same transactions again and again: by storage
\* they are created over, by other tabs and by repeated 'signed' updates
NextAnnounce ==
  \/ MountMutation(Unset, Unset, TRUE)
  \/ RenewWatcher
  \/ FirstSend
  \/ \E n \in 1..MaxSends : WriteSettles(n, TRUE)
  \/ \E n \in 1..MaxSends : SignedAgain(n)
  \/ StorageEvent
  \/ \E g \in 1..MaxWatchers, txInfo \in TxInfos \cup {OtherTab}, succeeded \in BOOLEAN :
       ReceiptArrives(g, txInfo, succeeded)
  \/ \E g \in 1..MaxWatchers, txInfo \in TxInfos \cup {OtherTab} : WaitFails(g, txInfo)

SpecAnnounce == Init /\ [][NextAnnounce]_vars

\* the props ContextQueryProvider may be given
WatchBlocksProps == {Unset, Bool(TRUE)}
IntervalProps == {Unset, Number(2)}

\* the callback of the provider's own subscription
SetBlockNumber == "setBlockNumber"

\* ContextQueryProvider renders for the first time: its manager is new, query.calls is
\* empty, its first effect subscribes setBlockNumber and the effect of
\* useRefetchOnBlockChange returns at once, watchBlocks && !!query.calls.length being false
MountContext(watchBlocks, blocksRefetchInterval) ==
  /\ contextBlocks = NoContext
  /\ LET sub == subscribe(subscribers, currentBlock, SetBlockNumber)
     IN /\ subscribers' = sub.subscribers
        /\ delivered' = sub.invoked
        /\ contextBlocks' =
             [mounted |-> TRUE, watchBlocks |-> watchBlocks,
              blocksRefetchInterval |-> blocksRefetchInterval,
              blockNumber |-> IF sub.invoked = <<>> THEN NoBlock
                              ELSE setBlockNumber(NoBlock, currentBlock),
              deps |-> <<ContextWatch(watchBlocks, providerQuery.calls),
                         ContextInterval(blocksRefetchInterval)>>,
              closure |-> NoClosure, runs |-> 0, fetched |-> 0, caused |-> <<>>]
  /\ last' = [op |-> "mountContext"]
  /\ UNCHANGED <<currentBlock, subscriptions, scheduler, queryVars, asyncVars, mutationVars,
                 providerState>>

\* the provider renders with the batch setQuery gave it; the effect of
\* useRefetchOnBlockChange runs again when watchBlocks && !!query.calls.length has
\* changed: the cleanup of the former run, then the new run, which subscribes when it is
\* true and is called back at once with a positive stored block
RenderContext(calls) ==
  LET watch == ContextWatch(contextBlocks.watchBlocks, calls)
      interval == ContextInterval(contextBlocks.blocksRefetchInterval)
      rerun == contextBlocks.deps # <<watch, interval>>
      old == contextBlocks.closure
      cleaned == cleanup(subscribers, old)
      fresh == NewClosure(contextBlocks.runs + 1, interval)
      sub == subscribe(cleaned, currentBlock, fresh.callback)
      ran == IF sub.invoked = <<>> THEN [closure |-> fresh, observed |-> <<>>]
             ELSE LET o == Observe(fresh, currentBlock)
                  IN [closure |-> o.closure, observed |-> <<o.observed>>]
      refetched == rerun /\ watch /\ ran.observed # <<>> /\ ran.observed[1].refetch
  IN /\ subscribers' = IF ~rerun THEN subscribers
                       ELSE IF watch THEN sub.subscribers ELSE cleaned
     /\ delivered' = IF rerun /\ watch THEN sub.invoked ELSE <<>>
     /\ contextBlocks' =
          IF ~rerun THEN [contextBlocks EXCEPT !.caused = <<>>]
          ELSE [contextBlocks EXCEPT
                  !.deps = <<watch, interval>>,
                  !.closure = IF watch THEN ran.closure ELSE NoClosure,
                  !.runs = IF watch THEN @ + 1 ELSE @,
                  !.fetched = IF refetched THEN currentBlock ELSE 0,
                  !.caused = IF refetched THEN <<BlockRead("refetch", currentBlock, 0)>>
                             ELSE <<>>]

\* a child of the provider registers a query: addQuery, setQuery, and the provider's render
ContextAdd(collection) ==
  /\ contextBlocks.mounted
  /\ queryId < MaxQueries
  /\ version < MaxVersion
  /\ LET added == addQuery(queries, activeQueries, queryId,
                           [collection |-> collection, callBack |-> ToString(queryId)])
     IN /\ queries' = added.queries
        /\ activeQueries' = added.activeQueries
        /\ queryId' = added.queryId
        /\ AggregateQueries(added.queries, addressResolver)
        /\ issued' = Append(issued, added.id)
        /\ last' = [op |-> "addQuery", id |-> added.id]
  /\ RenderContext(providerQuery'.calls)
  /\ UNCHANGED <<addressResolver, hooks, removedIds, providerState>>
  /\ UNCHANGED <<currentBlock, subscriptions, scheduler, asyncVars, mutationVars>>

\* a child of the provider withdraws its query: removeQuery, setQuery, and the provider's
\* render
ContextRemove(id) ==
  /\ contextBlocks.mounted
  /\ id \in Range(activeQueries)
  /\ version < MaxVersion
  /\ LET removed == removeQuery(queries, activeQueries, id)
     IN /\ queries' = removed.queries
        /\ activeQueries' = removed.activeQueries
        /\ AggregateQueries(removed.queries, addressResolver)
  /\ removedIds' = removedIds \cup {id}
  /\ last' = [op |-> "removeQuery", id |-> id, present |-> TRUE]
  /\ RenderContext(providerQuery'.calls)
  /\ UNCHANGED <<queryId, addressResolver, hooks, issued, providerState>>
  /\ UNCHANGED <<currentBlock, subscriptions, scheduler, asyncVars, mutationVars>>

\* the upstream watcher reports a block to the notifier the provider has subscribed to:
\* setBlockNumber first, then the scheduler's subscriber when there is one; the provider
\* renders with the new blockNumber, which useReadContracts takes as another read
ContextBlock(newBlock) ==
  /\ contextBlocks.mounted
  /\ LET out == onBlockUpdated(subscribers, newBlock)
         called == {out.invoked[i].callback : i \in 1..Len(out.invoked)}
         blockNumber == IF SetBlockNumber \in called
                        THEN setBlockNumber(contextBlocks.blockNumber, newBlock)
                        ELSE contextBlocks.blockNumber
         scheduled == contextBlocks.closure # NoClosure
                        /\ contextBlocks.closure.callback \in called
         o == Observe(contextBlocks.closure, newBlock)
         calls == providerQuery.calls
         refetch == IF scheduled /\ o.observed.refetch
                    THEN <<BlockRead("refetch", newBlock, contextBlocks.fetched)>> ELSE <<>>
         reread == IF /\ Len(calls) # 0
                      /\ ReadContractsParameters(calls, blockNumber)
                           # ReadContractsParameters(calls, contextBlocks.blockNumber)
                   THEN <<BlockRead("blockNumber", newBlock, contextBlocks.fetched)>>
                   ELSE <<>>
     IN /\ currentBlock' = out.currentBlock
        /\ delivered' = out.invoked
        /\ contextBlocks' =
             [contextBlocks EXCEPT
                !.blockNumber = blockNumber,
                !.closure = IF scheduled THEN o.closure ELSE @,
                !.fetched = IF refetch \o reread # <<>> THEN newBlock ELSE @,
                !.caused = refetch \o reread]
  /\ last' = [op |-> "onBlockUpdated", block |-> newBlock]
  /\ UNCHANGED <<subscribers, subscriptions, scheduler, queryVars, asyncVars, mutationVars,
                 providerState>>

\* ContextQueryProvider with children that register and withdraw queries while blocks arrive
NextContext ==
  \/ \E watchBlocks \in WatchBlocksProps, blocksRefetchInterval \in IntervalProps :
       MountContext(watchBlocks, blocksRefetchInterval)
  \/ ContextAdd(<<Entry("x", ReqA)>>)
  \/ \E id \in 0..MaxQueries : ContextRemove(id)
  \/ \E newBlock \in Blocks : ContextBlock(newBlock)

SpecContext == Init /\ [][NextContext]_vars

\* ContextQueryProvider renders for the first time: query is the initial state, there is
\* nothing to read, and the onResult effect is due
MountExecutor ==
  /\ executor = NoExecutor
  /\ executor' = [mounted |-> TRUE, query |-> providerQuery,
                  result |-> PendingResult(providerQuery.calls),
                  effect |-> OnResultEffect(TRUE, FALSE)]
  /\ fired' = <<>>
  /\ last' = [op |-> "mountExecutor"]
  /\ UNCHANGED <<engineVars, providerQuery, hooks, issued, removedIds, recomputations>>
  /\ UNCHANGED <<blockVars, iteratorProps, asyncOut, mutationVars, providerState>>

\* React renders the provider with the query state setQuery gave it (the effects of the
\* render before are flushed first); useReadContracts returns a result object for
\* query.calls: the one it had when the contracts are the same, else one without data
\* or with the cached data
RenderQuery(result) ==
  /\ executor.mounted
  /\ ~executor.effect
  /\ executor.query # providerQuery
  /\ result \in (IF providerQuery.calls = executor.query.calls THEN {executor.result}
                 ELSE RenderResults(providerQuery.calls))
  /\ executor' = [executor EXCEPT !.query = providerQuery,
                                  !.result = result,
                                  !.effect = OnResultEffect(FALSE, TRUE)]
  /\ fired' = <<>>
  /\ last' = [op |-> "renderQuery"]
  /\ UNCHANGED <<engineVars, providerQuery, hooks, issued, removedIds, recomputations>>
  /\ UNCHANGED <<blockVars, iteratorProps, asyncOut, mutationVars, providerState>>

\* the executor ends a read of the contracts the provider rendered with; data or error
\* being another value (notifyOnChangeProps), the provider renders with the new result
ExecutorCompletes(data, error) ==
  /\ executor.mounted
  /\ ~executor.effect
  /\ executor.query = providerQuery
  /\ executor.query.calls # <<>>
  /\ data # UndefinedValue \/ error # NullValue
  /\ <<data, error>> # <<executor.result.data, executor.result.error>>
  /\ executor' = [executor EXCEPT !.result = CompletedResult(data, error),
                                  !.effect = OnResultEffect(FALSE, TRUE)]
  /\ fired' = <<>>
  /\ last' = [op |-> "executorCompletes"]
  /\ UNCHANGED <<engineVars, providerQuery, hooks, issued, removedIds, recomputations>>
  /\ UNCHANGED <<blockVars, iteratorProps, asyncOut, mutationVars, providerState>>

\* the provider's effect: queryManager.onResult(result, query.version), with the result
\* and the query of the render it belongs to
OnResultEffectRuns ==
  /\ executor.mounted
  /\ executor.effect
  /\ LET invocations == onResult(executor.result, executor.query.version, currGlobal,
                                 activeQueries, queries)
     IN /\ fired' = invocations
        /\ hooks' = SetResults(hooks, invocations)
        /\ executor' = [executor EXCEPT !.effect = FALSE]
  /\ last' = [op |-> "onResult", version |-> executor.query.version,
              result |-> executor.result]
  /\ UNCHANGED <<engineVars, providerQuery, issued, removedIds, recomputations>>
  /\ UNCHANGED <<blockVars, iteratorProps, asyncOut, mutationVars, providerState>>

\* a render of the provider that setQuery has asked for
RenderContextQuery ==
  /\ executor.mounted
  /\ \E result \in RenderResults(providerQuery.calls) \cup {executor.result} :
       RenderQuery(result)

\* what the children of the provider register: no request, or two requests whose
\* addresses depend on the resolver
DispatchCollections == {<<>>, <<Entry("x", ReqB), Entry("y", ReqC)>>}

\* ContextQueryProvider between its children, which register and withdraw queries, its
\* Provider, which may change the resolver, and the executor
NextDispatch ==
  \/ MountExecutor
  \/ \E collection \in DispatchCollections : executor.mounted /\ AddQuery(collection)
  \/ \E id \in 0..MaxQueries : executor.mounted /\ RemoveQuery(id)
  \/ \E resolver \in Resolvers : executor.mounted /\ SetAddressResolver(resolver)
  \/ RenderContextQuery
  \/ /\ executor.mounted
     /\ \E data \in {UndefinedValue} \cup ReadData(executor.query.calls),
           error \in Errors :
          ExecutorCompletes(data, error)
  \/ OnResultEffectRuns

SpecDispatch == Init /\ [][NextDispatch]_vars

\* React renders a component whose state was set and runs the effects of a render that
\* was committed
SpecDispatchFair ==
  /\ SpecDispatch
  /\ WF_vars(RenderContextQuery)
  /\ WF_vars(OnResultEffectRuns)

(***************************************************************************)
(* Properties                                                              *)
(***************************************************************************)
\* the calls a registered query asks for, with the resolver now in place
OwnCalls(id) == ExpandQuery(id, queries[id].collection, addressResolver)

\* the active queries that have calls in the current batch, in registration order
Contributing == SortedIds(Range(activeQueries) \cap DOMAIN currGlobal.count)

FiredIds == [j \in 1..Len(fired) |-> fired[j].queryId]

\* C1: whatever the interleaving of registrations, removals, resolver changes and
\* completions (late, repeated or of superseded batches), a callback is only ever handed
\* the executor's answers, of one round, to its own query's current calls in their order,
\* and the result that is sliced is an answer to the current batch
C1_OwnResultsOnly ==
  fired # <<>> =>
    /\ last.result.data \in Answers(currGlobal.calls)
    /\ \E round \in 1..MaxRounds :
         \A j \in 1..Len(fired) :
           LET id == fired[j].queryId
               items == fired[j].result.data.items
           IN /\ id \in DOMAIN queries
              /\ Len(items) = Len(OwnCalls(id))
              /\ \A i \in 1..Len(items) :
                   items[i] \in {ExecEntry(OwnCalls(id)[i], round, failed) :
                                   failed \in BOOLEAN}

C1_Witness ==
  /\ Len(fired) >= 2
  /\ version >= 3
  /\ addressResolver = "r1"

\* C2: onResult invokes the callbacks (of every query with calls in the batch) if and
\* only if the result is not loading, has data, has as many entries as the current batch
\* has calls, and carries the current batch's version; otherwise it invokes none
FourConditions ==
  /\ ~last.result.isLoading
  /\ last.result.data # UndefinedValue
  /\ Len(last.result.data.items) = Len(currGlobal.calls)
  /\ last.version = currGlobal.version

C2_AppliedIffFourConditions ==
  last.op = "onResult" =>
    IF FourConditions THEN FiredIds = Contributing ELSE fired = <<>>

C2_Witness ==
  /\ last.op = "onResult"
  /\ last.version = currGlobal.version
  /\ ~last.result.isLoading
  /\ last.result.data # UndefinedValue
  /\ Len(last.result.data.items) # Len(currGlobal.calls)
  /\ Contributing # <<>>
  /\ fired = <<>>

\* C3: when a result is applied, the j-th contributing query in registration order is
\* called exactly once, with the entries from the sum of the counts before it, as many
\* as its own count
RECURSIVE SumCounts(_, _)
SumCounts(ids, n) == IF n = 0 THEN 0 ELSE currGlobal.count[ids[n]] + SumCounts(ids, n - 1)

C3_SliceAtOffset ==
  fired # <<>> =>
    /\ FiredIds = Contributing
    /\ SumCounts(Contributing, Len(Contributing)) = Len(last.result.data.items)
    /\ \A j \in 1..Len(fired) :
         fired[j].result.data.items
           = [i \in 1..currGlobal.count[Contributing[j]] |->
                last.result.data.items[SumCounts(Contributing, j - 1) + i]]

C3_Witness ==
  /\ Len(fired) = 2
  /\ Len(fired[1].result.data.items) = 2
  /\ Len(fired[2].result.data.items) = 1
  /\ Len(activeQueries) = 3

\* C4: every addQuery, removeQuery and setAddressResolver call takes exactly one new
\* version: the version is the number of recomputations made so far
C4_VersionCountsRecomputations == version = recomputations

C4_Witness ==
  /\ last.op = "removeQuery"
  /\ ~last.present
  /\ version >= 3

\* C5: once removeQuery(id) has returned for a registered query, no later onResult,
\* whatever version and data it carries, invokes the callback registered under id
C5_RemovedNeverCalled ==
  \A j \in 1..Len(fired) : fired[j].queryId \notin removedIds

C5_Witness ==
  /\ fired # <<>>
  /\ removedIds # {}
  /\ last.result.error # NullValue

\* C6: removeQuery(id) for an id that is not registered (never issued, or removed
\* before) leaves the registered queries and the batch's calls and count as they were,
\* so removing an id twice leaves what removing it once leaves
C6_RemoveAbsentChangesNothing ==
  [][(recomputations' # recomputations /\ last'.op = "removeQuery" /\ ~last'.present)
       => /\ activeQueries' = activeQueries
          /\ queries' = queries
          /\ currGlobal'.calls = currGlobal.calls
          /\ currGlobal'.count = currGlobal.count]_vars

C6_Witness ==
  /\ last.op = "removeQuery"
  /\ ~last.present
  /\ last.id \in removedIds
  /\ activeQueries # <<>>
  /\ currGlobal.calls # <<>>

\* C7: no two addQuery calls return the same id, removals in between notwithstanding
C7_IdsNeverReused ==
  \A i, j \in 1..Len(issued) : i # j => issued[i] # issued[j]

C7_Witness ==
  /\ last.op = "addQuery"
  /\ removedIds # {}
  /\ Len(issued) >= 3

\* C8: after every addQuery, removeQuery and setAddressResolver the batch's calls are the
\* calls of the active queries, expanded with the resolver in place and concatenated in
\* ascending id order, and count maps exactly the active queries with a non-empty
\* collection to the number of their calls, the counts adding up to the number of calls;
\* the query addQuery has just returned the id of is among them
RECURSIVE ConcatCalls(_)
ConcatCalls(ids) ==
  IF ids = <<>> THEN <<>> ELSE OwnCalls(Head(ids)) \o ConcatCalls(Tail(ids))

C8_BatchIsConcatenation ==
  /\ currGlobal.calls = ConcatCalls(SortedIds(Range(activeQueries)))
  /\ DOMAIN currGlobal.count
       = {id \in Range(activeQueries) : Len(queries[id].collection) > 0}
  /\ \A id \in DOMAIN currGlobal.count :
       currGlobal.count[id] = Len(queries[id].collection)
  /\ SumCounts(Contributing, Len(Contributing)) = Len(currGlobal.calls)
  /\ last.op = "addQuery" =>
       /\ last.id \in Range(activeQueries)
       /\ \A i \in 1..Len(OwnCalls(last.id)) : \E n \in 1..Len(currGlobal.calls) :
            currGlobal.calls[n] = OwnCalls(last.id)[i]

C8_Witness ==
  /\ last.op = "setAddressResolver"
  /\ Len(activeQueries) = 3
  /\ Cardinality(DOMAIN currGlobal.count) = 2
  /\ \E n \in 1..Len(currGlobal.calls) : currGlobal.calls[n].address = "0xT1"

\* C9: when the executor reports a whole-batch failure for the current batch (a result
\* with an error, not loading, carrying the current version, with the stale data of the
\* batch or with none), every active query with calls in the batch is called back with
\* isError true and that error
C9_TransportFailureReachesAll ==
  (/\ last.op = "onResult"
   /\ last.version = currGlobal.version
   /\ ~last.result.isLoading
   /\ last.result.error # NullValue
   /\ last.result.data \in {UndefinedValue} \cup Answers(currGlobal.calls))
    => /\ FiredIds = Contributing
       /\ \A j \in 1..Len(fired) :
            fired[j].result.isError /\ fired[j].result.error = last.result.error

\* C10: while a component keeps its requests, a render made with a result that has a
\* top-level error (with data or without) leaves every key that showed a resolved value
\* showing that same value, so the value survives any number of failing results
C10_ErrorKeepsResolvedValues ==
  [][\A h \in Hooks :
       (/\ hooks[h].mounted /\ hooks'[h].mounted
        /\ hooks'[h].kind = hooks[h].kind
        /\ hooks'[h].requests = hooks[h].requests
        /\ hooks'[h].result.error # NullValue)
         => \A k \in DOMAIN hooks[h].data :
              hooks[h].data[k].t = "result" => hooks'[h].data[k] = hooks[h].data[k]]_vars

C10_Witness ==
  \E h \in Hooks :
    /\ hooks[h].mounted
    /\ ~hooks[h].pending
    /\ hooks[h].result.error # NullValue
    /\ hooks[h].result.data = UndefinedValue
    /\ hooks[h].deps[2] # NullValue
    /\ \A k \in DOMAIN hooks[h].data : hooks[h].data[k].t = "result"
    /\ Cardinality(DOMAIN hooks[h].data) = 2

\* the positions of a result's data that hold a failure entry
FailedPositions(items) == {i \in 1..Len(items) : items[i].status = "failure"}

\* the values the executor can return for a call
ValuesOf(call) == {ExecValue(call, round) : round \in 1..MaxRounds}

\* a result without top-level error and with one failure entry has been handed out: the
\* callback of every query with calls in the batch got the entries of its own positions,
\* the failure entry where it owns the failed position and its calls' values elsewhere
OwnPositionsDespiteFailure ==
  (/\ fired # <<>>
   /\ last.result.error = NullValue
   /\ Cardinality(FailedPositions(last.result.data.items)) = 1)
    => \A j \in 1..Len(fired) :
         LET offset == SumCounts(Contributing, j - 1)
             items == fired[j].result.data.items
             calls == OwnCalls(fired[j].queryId)
         IN /\ Len(items) = Len(calls)
            /\ \A i \in 1..Len(items) :
                 IF offset + i \in FailedPositions(last.result.data.items)
                 THEN items[i].status = "failure" /\ items[i].result = UndefinedValue
                 ELSE items[i].status = "success" /\ items[i].result \in ValuesOf(calls[i])

\* a component showing a result without top-level error: a key whose entry is a failure
\* shows what it showed before (a value seen earlier or its default), every other key
\* shows the value of its own entry
FailedKeyKept ==
  \A h \in Hooks :
    (/\ hooks[h].mounted /\ hooks'[h].mounted
     /\ hooks'[h].requests = hooks[h].requests
     /\ ~hooks'[h].pending
     /\ hooks'[h].result.error = NullValue
     /\ hooks'[h].result.data # UndefinedValue)
      => \A i \in 1..Len(hooks[h].requests) :
           LET k == hooks[h].requests[i].key
               entry == hooks'[h].result.data.items[i]
               call == QueryCalls(hooks[h].requests, addressResolver)[i]
           IN IF entry.status = "failure"
              THEN /\ hooks'[h].data[k] = hooks[h].data[k]
                   /\ hooks[h].data[k] \in ValuesOf(call)
                                            \cup {hooks[h].requests[i].req.defaultValue}
              ELSE /\ hooks'[h].data[k] = entry.result
                   /\ entry.result \in ValuesOf(call)

\* C11: when a result without top-level error holds a failure entry at one call's
\* position, the key owning that position keeps the value it showed before (its default
\* if it never resolved), while every other key of the same query and every other query
\* of the batch receives the value of its own position
C11_FailureEntryIsolated == []OwnPositionsDespiteFailure /\ [][FailedKeyKept]_vars

C11_Witness ==
  \E h \in Hooks :
    /\ hooks[h].mounted
    /\ ~hooks[h].pending
    /\ hooks[h].queryId > 0
    /\ 0 \in DOMAIN currGlobal.count
    /\ Len(hooks[h].requests) = 2
    /\ hooks[h].result.error = NullValue
    /\ hooks[h].result.data # UndefinedValue
    /\ hooks[h].result.data.items[1].status = "failure"
    /\ hooks[h].result.data.items[2].result.round = 2
    /\ hooks[h].data["x"] \in ValuesOf(QueryCalls(hooks[h].requests, addressResolver)[1])
    /\ hooks[h].data["x"].round = 1
    /\ hooks[h].data["y"].round = 2

\* C12: a call for which no address can be resolved is rejected when the query is built:
\* no call with a missing address is in the aggregate batch, and none is among the
\* contracts query sends to the executor
C12_MissingAddressRejected ==
  /\ \A n \in 1..Len(currGlobal.calls) : currGlobal.calls[n].address # Undefined
  /\ asyncOut.op = "query" =>
       \A n \in 1..Len(asyncOut.call.contracts) : asyncOut.call.contracts[n].address # Undefined

C14_SecondUnsubscribeHarmless ==
  [][(last'.op = "unsubscribe" /\ last'.again)
       => \A m \in 1..Len(subscriptions) :
            (/\ m # last'.subscription
             /\ ~subscriptions[m].closed
             /\ subscriptions[m].callback \in Range(subscribers))
              => subscriptions[m].callback \in Range(subscribers')]_vars

\* the callbacks that are subscribed (subscribe was called with them and no function it
\* returned for them was called since), in the order of those subscribe calls
SubscribedCallbacks ==
  LET first == {n \in 1..Len(subscriptions) :
                  /\ ~subscriptions[n].cut
                  /\ \A m \in 1..(n - 1) :
                       subscriptions[m].cut
                         \/ subscriptions[m].callback # subscriptions[n].callback}
  IN [i \in 1..Cardinality(first) |-> subscriptions[SortedIds(first)[i]].callback]

\* C15: onBlockUpdated(b) invokes every callback that is subscribed at that moment
\* exactly once with b, in the order they were registered, and no callback that was
\* unsubscribed; each call delivers its own block before the next call is made
C15_FanOutInRegistrationOrder ==
  last.op = "onBlockUpdated" =>
    delivered = [i \in 1..Len(SubscribedCallbacks) |->
                   Invocation(SubscribedCallbacks[i], last.block)]

C15_Witness ==
  /\ last.op = "onBlockUpdated"
  /\ delivered = <<Invocation("cb2", last.block), Invocation("cb1", last.block)>>
  /\ currentBlock = last.block
  /\ \E n \in 1..Len(subscriptions) : subscriptions[n].closed

\* the L of C16 for an invocation of the scheduler's subscriber: the block of the most
\* recent refetch, or before the first one b0 - 1, b0 being the first positive block seen
ClaimedL(o) == IF o.previousTrigger # 0 THEN o.previousTrigger ELSE o.first - 1

\* C16: the scheduler calls refetch at a delivered block b if and only if b > 0 and
\* b >= L + N, N being its cadence and L being b0 - 1 until the first refetch and the
\* block of the most recent refetch afterwards
C16_RefetchIffCadenceReached ==
  \A i \in 1..Len(scheduler.observed) :
    LET o == scheduler.observed[i]
    IN o.refetch <=> (o.block > 0 /\ o.block >= ClaimedL(o) + o.interval)

\* the enabling condition as C17 words it
EnabledAsClaimed(options, provider) ==
  /\ Coalesce(options.watchBlocks, provider.watchBlocks) = Bool(TRUE)
  /\ options.paused # Bool(TRUE)
  /\ options.isStatic # Bool(TRUE)
  /\ options.blockNumber = Unset
  /\ options.refetchInterval = Unset

\* C17: the scheduler holds a notifier subscription only while watchBlocks (the option,
\* or the provider's when the option is unset) is true and the query is not paused, not
\* static, not pinned to a block number and without a refetch interval; while any of
\* these disables it, no block notification calls refetch
C17_SubscribedOnlyWhileEnabled ==
  scheduler.mounted =>
    (~EnabledAsClaimed(scheduler.options, scheduler.provider) =>
       /\ scheduler.closure = NoClosure
       /\ \A i \in 1..Len(scheduler.observed) : ~scheduler.observed[i].refetch)

\* the subscriptions whose returned function was not called
OpenSubscriptions == {n \in 1..Len(subscriptions) : ~subscriptions[n].closed}

\* at most one subscription is open, none when the scheduler is torn down or disabled;
\* the notifier's subscribers all belong to open subscriptions, and so does any
\* subscriber that has called refetch
ScopedAcquisition ==
  /\ Cardinality(OpenSubscriptions) <= 1
  /\ (~scheduler.mounted \/ ~scheduler.deps[1]) => OpenSubscriptions = {}
  /\ scheduler.closure # NoClosure => OpenSubscriptions = {scheduler.closure.subscription}
  /\ \A i \in 1..Len(subscribers) :
       \E n \in OpenSubscriptions : subscriptions[n].callback = subscribers[i]
  /\ \A i \in 1..Len(scheduler.observed) :
       \E n \in OpenSubscriptions : subscriptions[n].callback = scheduler.observed[i].callback

\* a cleanup calls the returned function of a subscription that was open until then
ReleasedOnce ==
  \A i \in 1..Len(scheduler'.released) : ~subscriptions[scheduler'.released[i]].closed

\* C18: whatever the sequence of enabling, disabling, cadence changes and teardowns, each
\* subscription the scheduler acquires is released exactly once, at most one is open at
\* any time and none after teardown or disabling, and a released subscription is never
\* notified, so never triggers a refetch
C18_AcquireReleaseOnce == []ScopedAcquisition /\ [][ReleasedOnce]_vars

C18_Witness ==
  /\ Len(subscriptions) = 3
  /\ OpenSubscriptions = {3}
  /\ scheduler.closure.interval = 2
  /\ Len(scheduler.observed) = 1
  /\ scheduler.observed[1].refetch
  /\ subscribers = <<scheduler.closure.callback>>

\* C19: an iterator query with total = 0 gives its caller isLoading = false and data = []
\* and dispatches nothing: the hook hands no request to useContextQuery / useQuery, so
\* no call of the batch is its own, and iteratorQuery resolves to [] without calling
\* multicall
C19_EmptyIteratorQuery ==
  /\ \A h \in Hooks :
       (hooks[h].mounted /\ iteratorProps.total = 0) =>
         /\ IteratorResult(hooks[h], iteratorProps.total).data = <<>>
         /\ ~IteratorResult(hooks[h], iteratorProps.total).isLoading
         /\ QueryCalls(hooks[h].requests, addressResolver) = <<>>
         /\ hooks[h].queryId \notin DOMAIN currGlobal.count
         /\ \A n \in 1..Len(providerQuery.calls) :
              providerQuery.calls[n].queryId # hooks[h].queryId
  /\ (asyncOut.op = "iteratorQuery" /\ asyncOut.total = 0) =>
       /\ ~asyncOut.call.dispatched
       /\ asyncOut.call.settled = [status |-> "fulfilled", value |-> <<>>]

C19_Witness ==
  /\ \E h \in Hooks :
       /\ hooks[h].mounted
       /\ hooks[h].kind = "useContextQuery"
       /\ hooks[h].queryId # NoQuery
       /\ hooks[h].result.isLoading
  /\ iteratorProps.total = 0
  /\ iteratorProps.firstIndex = 1
  /\ asyncOut.op = "iteratorQuery"
  /\ asyncOut.total = 0

\* the result a rendered component holds is a success: no error, not loading, and every
\* entry of its data a success
SuccessfulResult(hk) ==
  /\ ~hk.pending
  /\ ~hk.result.isLoading
  /\ hk.result.error = NullValue
  /\ hk.result.data # UndefinedValue
  /\ \A i \in 1..Len(hk.result.data.items) : hk.result.data.items[i].status = "success"

\* C20: after a successful result for an iterator query with total N >= 1 and first index
\* f, the data list has exactly N entries, entry i (from 0) being {queryIndex: f + i,
\* value: the result of call i}, whatever the values returned, for the hooks and for
\* iteratorQuery alike
C20_IteratorDataByIndex ==
  /\ \A h \in Hooks :
       (hooks[h].mounted /\ iteratorProps.total >= 1 /\ SuccessfulResult(hooks[h])) =>
         IteratorResult(hooks[h], iteratorProps.total).data
           = [i \in 1..iteratorProps.total |->
                [value |-> hooks[h].result.data.items[i].result,
                 queryIndex |-> iteratorProps.firstIndex + i - 1]]
  /\ (/\ asyncOut.op = "iteratorQuery"
      /\ asyncOut.total >= 1
      /\ asyncOut.call.settled.status = "fulfilled") =>
       asyncOut.call.settled.value
         = [i \in 1..asyncOut.total |->
              [value |-> asyncOut.outcome.results[i].result,
               queryIndex |-> asyncOut.firstIndex + i - 1]]

\* the positions of a multicall answer whose entry carries an error
ErrorPositions(results) == {i \in 1..Len(results) : results[i].error # UndefinedValue}

\* C21: query rejects with multicall's error when multicall rejects; when an entry of the
\* answer carries an error it rejects with the error of the first such entry and returns
\* no data; otherwise it resolves to exactly the request keys, in order, each with the
\* result at its position, or with the request's default when that result is absent
C21_QueryRejectsOrReturnsAllKeys ==
  asyncOut.op = "query" =>
    LET outcome == asyncOut.outcome
        settled == asyncOut.call.settled
        requests == asyncOut.requests
    IN IF outcome.status = "rejected"
       THEN settled = [status |-> "rejected", error |-> outcome.error]
       ELSE IF ErrorPositions(outcome.results) # {}
            THEN /\ DOMAIN settled = {"status", "error"}
                 /\ settled.status = "rejected"
                 /\ \E i \in ErrorPositions(outcome.results) :
                      /\ \A j \in ErrorPositions(outcome.results) : i <= j
                      /\ settled.error = outcome.results[i].error
            ELSE /\ settled.status = "fulfilled"
                 /\ Len(settled.value) = Len(requests)
                 /\ \A i \in 1..Len(requests) :
                      /\ settled.value[i].key = requests[i].key
                      /\ settled.value[i].value =
                           IF outcome.results[i].result = UndefinedValue
                           THEN requests[i].req.defaultValue
                           ELSE outcome.results[i].result

\* a two-request query whose answer fails at both positions, with different errors
C21_Witness ==
  /\ asyncOut.op = "query"
  /\ asyncOut.outcome.status = "fulfilled"
  /\ Len(asyncOut.outcome.results) = 2
  /\ ErrorPositions(asyncOut.outcome.results) = {1, 2}
  /\ asyncOut.outcome.results[1].error # asyncOut.outcome.results[2].error
  /\ asyncOut.call.settled.status = "rejected"

\* the keys of a request collection
KeysOf(requests) == Range(useCallKeys(requests))

\* C22: the data a useContextQuery component holds always has exactly the keys of its
\* current request collection; as long as no result was delivered to it, isLoading is
\* true and every value is the default of the key's current request; and on the render
\* that follows a successful delivery isLoading is false and every key holds the result
\* at its position
C22_DataKeyedAsRequests ==
  \A h \in Hooks :
    (hooks[h].mounted /\ hooks[h].kind = "useContextQuery") =>
      /\ DOMAIN hooks[h].data = KeysOf(hooks[h].requests)
      /\ hooks[h].result = InitialResult =>
           /\ hooks[h].result.isLoading
           /\ \A i \in 1..Len(hooks[h].requests) :
                hooks[h].data[hooks[h].requests[i].key] = hooks[h].requests[i].req.defaultValue
      /\ (/\ last = [op |-> "render", hook |-> h]
          /\ hooks[h].queryId # NoQuery
          /\ hooks[h].result.data # UndefinedValue
          /\ SuccessfulResult(hooks[h])) =>
           /\ ~hooks[h].result.isLoading
           /\ \A i \in 1..Len(hooks[h].requests) :
                hooks[h].data[hooks[h].requests[i].key] = hooks[h].result.data.items[i].result

\* C23: once a component's request collection has changed and its old registration is
\* removed, and as long as the new collection is not registered (so that no result for
\* it can have been delivered), every key shows the default of its new request
C23_NoValueOfOldCollection ==
  \A h \in Hooks :
    (/\ hooks[h].mounted
     /\ hooks[h].kind = "useContextQuery"
     /\ hooks[h].queryId = NoQuery) =>
      hooks[h].data = useDefaultData(hooks[h].requests)

\* C29: a recomputation whose candidate has the calls and the per-query counts of the
\* stored batch leaves the stored batch, its version field included, as it was and does
\* not notify the dispatcher, while the version counter advances
C29_UnchangedCandidateDiscarded ==
  [][(/\ recomputations' # recomputations
      /\ NewContextQuery(queries', addressResolver', version').calls = currGlobal.calls
      /\ NewContextQuery(queries', addressResolver', version').count = currGlobal.count)
       => /\ currGlobal' = currGlobal
          /\ providerQuery' = providerQuery
          /\ version' = version + 1]_vars

\* C30: after every addQuery, removeQuery and setAddressResolver call the version field
\* of the batch getContextQuery() returns is the version getVersion() returns
C30_BatchVersionIsCounter == currGlobal.version = version

\* a call that changed neither the calls nor the counts of a non-empty batch
C30_Witness ==
  /\ last.op = "removeQuery"
  /\ ~last.present
  /\ currGlobal.calls # <<>>
  /\ currGlobal.version = version
  /\ providerQuery = currGlobal

\* nothing was registered with the manager and nothing handed to the executor
NothingDispatched ==
  /\ \A h \in Hooks : ~hooks[h].mounted
  /\ issued = <<>>
  /\ queries = EmptyCount
  /\ currGlobal.calls = <<>>
  /\ providerQuery.calls = <<>>

\* while no resolver was reported the children are not rendered and nothing is dispatched;
\* once one was, they are rendered and the manager resolves with the reported resolver
GatedByResolver ==
  (providerState.mounted /\ providerState.component) =>
     IF providerState.resolver = Undefined
     THEN ~providerState.children /\ NothingDispatched
     ELSE providerState.children /\ addressResolver = providerState.resolver

\* the children of a Provider with an AddressResolverComponent appear at an onResolved call
RenderedAtOnResolved ==
  (/\ providerState.mounted
   /\ providerState.component
   /\ ~providerState.children
   /\ providerState'.children) =>
     /\ last'.op = "onResolved"
     /\ providerState'.resolver = last'.resolver

\* C28: a Provider given an AddressResolverComponent renders no children, so that no query
\* is registered or dispatched, until the component has reported a resolver through
\* onResolved; from then on the children are rendered with that resolver
C28_ChildrenWaitForResolver == []GatedByResolver /\ [][RenderedAtOnResolved]_vars

\* a child's query dispatched with an address the reported resolver gave
C28_Witness ==
  /\ providerState.mounted
  /\ providerState.component
  /\ providerState.resolver = "r1"
  /\ \E h \in Hooks : hooks[h].mounted /\ hooks[h].queryId # NoQuery
  /\ \E n \in 1..Len(providerQuery.calls) : providerQuery.calls[n].address = "0xT1"

\* the ids of the updates send() number n has made itself
IdsOf(n) == {sends[n].updates[i].id : i \in 1..Len(sends[n].updates)}

\* C24: every update made for one send() call carries one id, the success / error update
\* a transaction watcher makes for its transaction included, and updates of two different
\* send() calls never carry the same id
C24_OneIdPerSend ==
  /\ \A n \in 1..Len(sends) : Cardinality(IdsOf(n)) <= 1
  /\ last.op = "receipt" =>
       \A i \in 1..Len(last.updates) : IdsOf(last.updates[i].txHash) = {last.updates[i].id}
  /\ \A n, m \in 1..Len(sends) : n # m => IdsOf(n) \cap IdsOf(m) = {}

\* C25: a send() without a connected account or without a chain makes exactly one update,
\* of status 'error', hands nothing to the wallet, and no 'submitted' or 'signed' update
\* nor any update of a watcher is ever made for it
C25_RefusedWithoutAccountOrChain ==
  /\ \A n \in 1..Len(sends) :
       (~sends[n].account \/ ~sends[n].chain) =>
          /\ Len(sends[n].updates) = 1
          /\ sends[n].updates[1].status = "error"
          /\ ~sends[n].wrote
  /\ last.op = "receipt" => sends[last.txHash].account /\ sends[last.txHash].chain

\* a send refused for its chain next to one that went to the wallet
C25_Witness ==
  /\ Len(sends) = 2
  /\ sends[1].account /\ ~sends[1].chain
  /\ sends[1].updates[1].error = Error("Invalid chain")
  /\ sends[2].wrote
  /\ mutation.client

\* simulation is enabled: the mutation's own option decides, the provider's default when
\* the mutation has none, and there must be a client
SimulationEnabled ==
  /\ mutation.client
  /\ IF mutation.simulate = Unset THEN mutation.simulateMutations = Bool(TRUE)
     ELSE mutation.simulate = Bool(TRUE)

\* C26: with simulation enabled and a client, a send() with account and chain hands the
\* write to the wallet and makes the 'submitted' update only once the simulation has
\* succeeded; when the simulation fails it makes one 'error' update and never hands the
\* write to the wallet
C26_SimulationBeforeSubmission ==
  \A n \in 1..Len(sends) :
    (SimulationEnabled /\ sends[n].account /\ sends[n].chain) =>
       /\ sends[n].simulation \in {"pending", "succeeded", "failed"}
       /\ sends[n].wrote => sends[n].simulation = "succeeded"
       /\ (\E i \in 1..Len(sends[n].updates) : sends[n].updates[i].status = "submitted")
            => sends[n].simulation = "succeeded"
       /\ sends[n].simulation = "failed" =>
            /\ ~sends[n].wrote
            /\ Len(sends[n].updates) = 1
            /\ sends[n].updates[1].status = "error"

\* under the provider's default alone: one simulation failed, one succeeded and was signed
C26_Witness ==
  /\ mutation.started
  /\ mutation.simulate = Unset
  /\ mutation.simulateMutations = Bool(TRUE)
  /\ Len(sends) = 2
  /\ sends[1].simulation = "failed"
  /\ sends[2].simulation = "succeeded"
  /\ sends[2].stage = "signed"

\* C27: a watcher that was cleaned up (its provider unmounted, or the client or the
\* callback changed) makes no success or error update for a transaction it was watching
\* when the receipt arrives afterwards
C27_NoUpdateAfterCleanup ==
  last.op = "receipt" => \A i \in 1..Len(last.updates) : ~last.updates[i].late

\* C39: an onResult call, whether it applies the result or drops it, leaves the engine's
\* registrations, its current batch, its version counter, its id counter and its address
\* resolver as they were, and hands nothing to the downstream dispatcher
C39_OnResultChangesNoEngineState ==
  [][last'.op = "onResult"
       => UNCHANGED <<queries, activeQueries, currGlobal, version, queryId, addressResolver,
                      providerQuery, recomputations>>]_vars

\* an onResult call has applied a result to two queries, and the engine is as it was
C39_Witness ==
  /\ last.op = "onResult"
  /\ Len(fired) >= 2
  /\ Len(activeQueries) >= 2
  /\ currGlobal.version = version

\* C38: after every engine operation the batch last handed to the downstream dispatcher
\* (onUpdate) is the engine's stored current batch, so the dispatcher never holds an older
\* one, and each batch handed to the dispatcher has a higher version than the one before
C38_DispatcherHoldsCurrentBatch ==
  /\ [](providerQuery = currGlobal)
  /\ [][providerQuery' # providerQuery => providerQuery'.version > providerQuery.version]_vars

\* the dispatcher holds the batch of a recomputation that changed neither calls nor counts
C38_Witness ==
  /\ last.op = "removeQuery"
  /\ ~last.present
  /\ version >= 2
  /\ Len(currGlobal.calls) > 0
  /\ providerQuery.version = version

\* the active queries whose collection has requests, in registration order
NonEmptyActive == SelectSeq(activeQueries, LAMBDA id : queries[id].collection # <<>>)

\* the number of requests of the first n of these queries
RECURSIVE RequestsBefore(_, _)
RequestsBefore(ids, n) ==
  IF n = 0 THEN 0 ELSE Len(queries[ids[n]].collection) + RequestsBefore(ids, n - 1)

\* C37: an active query with an empty collection has no call and no count entry in the
\* batch and is called back by no onResult; the queries that are called back are the
\* active ones with requests, each with the slice that starts after the requests of
\* those before it, as if the empty queries were not registered
C37_EmptyQuerySkipped ==
  /\ \A id \in Range(activeQueries) :
        queries[id].collection = <<>> =>
          /\ id \notin DOMAIN currGlobal.count
          /\ \A i \in 1..Len(currGlobal.calls) : currGlobal.calls[i].queryId # id
          /\ id \notin Range(FiredIds)
  /\ Len(currGlobal.calls) = RequestsBefore(NonEmptyActive, Len(NonEmptyActive))
  /\ fired # <<>> =>
        /\ FiredIds = NonEmptyActive
        /\ \A j \in 1..Len(fired) :
              fired[j].result.data.items =
                SubSeq(last.result.data.items,
                       RequestsBefore(NonEmptyActive, j - 1) + 1,
                       RequestsBefore(NonEmptyActive, j))

\* a result was applied while a query with an empty collection was registered before a
\* query that was called back
C37_Witness ==
  /\ fired # <<>>
  /\ \E id \in Range(activeQueries) :
        /\ queries[id].collection = <<>>
        /\ \E j \in 1..Len(fired) : id < fired[j].queryId
        /\ \E j \in 1..Len(fired) : id > fired[j].queryId

\* C36: the collection buildIteratorQuery(total, firstIndex, getItem) gives an iterator
\* hook has exactly total keys, item<firstIndex> to item<firstIndex + total - 1> in
\* ascending order, the value under item<i> being getItem(i); for total = 0 it is the
\* empty collection, no getItem value in it
C36_IteratorKeysFromFirstIndex ==
  \A h \in Hooks :
    (hooks[h].mounted /\ iteratorProps # NoIterator) =>
      LET built == hooks[h].requests
          total == iteratorProps.total
          firstIndex == iteratorProps.firstIndex
      IN /\ Len(built) = total
         /\ Cardinality({built[i].key : i \in 1..Len(built)}) = total
         /\ \A i \in 1..Len(built) :
               /\ built[i].key = "item" \o ToString(firstIndex + i - 1)
               /\ built[i].req = GetItem(firstIndex + i - 1)
         /\ total = 0 => built = <<>>

\* an iterator of two items or more that starts after index 0 was built
C36_Witness ==
  \E h \in Hooks :
    /\ hooks[h].mounted
    /\ iteratorProps.total >= 2
    /\ iteratorProps.firstIndex >= 1
    /\ Len(hooks[h].requests) >= 2

\* the address the claim names: the explicit one, else the resolver's, else the deploy address
ClaimedAddress(address, resolver, contractName, deployAddress) ==
  CASE address # Undefined -> address
    [] resolver # Undefined /\ ResolverFn(resolver, contractName) # Undefined ->
         ResolverFn(resolver, contractName)
    [] OTHER -> deployAddress

ClaimedFor(req, resolver) ==
  ClaimedAddress(req.address, resolver, req.contractName, req.deployAddress)

\* the resolver is called for the targets without an explicit address, and for no other
ClaimedConsulted(targets, resolver) ==
  IF resolver = Undefined THEN <<>>
  ELSE LET asked == SelectSeq(targets, LAMBDA t : t.address = Undefined)
       IN [i \in 1..Len(asked) |-> asked[i].contractName]

\* C35: in the batch the engine has computed, in the contracts query sends and in the
\* write of mutate and of useMutation, the address is the explicit address when one is
\* given, else what the resolver returns for the contract name when a resolver is set and
\* returns an address, else the deploy address; the resolver is called for no target that
\* has an explicit address
C35_AddressPrecedence ==
  /\ \A id \in DOMAIN queries :
        LET own == SelectSeq(currGlobal.calls, LAMBDA call : call.queryId = id)
            collection == queries[id].collection
        IN /\ Len(own) = Len(collection)
           /\ \A i \in 1..Len(own) :
                 own[i].address = ClaimedFor(collection[i].req, addressResolver)
  /\ asyncOut.op = "query" =>
        /\ \A i \in 1..Len(asyncOut.requests) :
              asyncOut.call.contracts[i].address
                = ClaimedFor(asyncOut.requests[i].req, asyncOut.resolver)
        /\ asyncOut.consulted
              = ClaimedConsulted([i \in 1..Len(asyncOut.requests) |-> asyncOut.requests[i].req],
                                 asyncOut.resolver)
  /\ (asyncOut.op = "mutate" /\ ~asyncOut.call.thrown) =>
        /\ Len(asyncOut.call.wrote) = 1
        /\ asyncOut.call.wrote[1].address
              = ClaimedAddress(asyncOut.address, asyncOut.resolver,
                               asyncOut.config.contractName, asyncOut.config.deployAddress)
        /\ asyncOut.call.consulted
              = ClaimedConsulted(<<[address |-> asyncOut.address,
                                    contractName |-> asyncOut.config.contractName]>>,
                                 asyncOut.resolver)
  /\ asyncOut.op = "useMutation" =>
        /\ asyncOut.call.address
              = ClaimedAddress(asyncOut.address, asyncOut.resolver,
                               asyncOut.config.contractName, asyncOut.config.deployAddress)
        /\ asyncOut.call.consulted
              = ClaimedConsulted(<<[address |-> asyncOut.address,
                                    contractName |-> asyncOut.config.contractName]>>,
                                 asyncOut.resolver)

\* the batch holds a call with an explicit address and one resolved by the resolver, and
\* mutate has written to an explicit address under a resolver that knows the contract
C35_Witness ==
  /\ addressResolver = "r1"
  /\ \E i, j \in 1..Len(currGlobal.calls) :
        /\ currGlobal.calls[i].address = "0xA"
        /\ currGlobal.calls[j].address = "0xT1"
  /\ asyncOut.op = "mutate"
  /\ asyncOut.address = "0xA"
  /\ asyncOut.resolver = "r1"
  /\ asyncOut.config.contractName = "T"
  /\ asyncOut.call.wrote = <<[address |-> "0xA", functionName |-> "setValue"]>>
  /\ asyncOut.call.consulted = <<>>

\* C33: within one subscription of the scheduler with an interval of N >= 1 blocks, a
\* refetch that follows an earlier one is made at a block at least N above the block of
\* the earlier one, whatever blocks were delivered in between (repeated and lower ones
\* included); the blocks of the refetches therefore rise, and a block number delivered
\* again triggers no second refetch
C33_RefetchesCadenceApart ==
  \A i \in 1..Len(scheduler.observed) :
    LET o == scheduler.observed[i]
    IN /\ (o.refetch /\ o.previousTrigger # 0) => o.block - o.previousTrigger >= o.interval
       /\ (o.previousTrigger # 0 /\ o.block <= o.previousTrigger) => ~o.refetch

\* a subscription with an interval of two blocks has refetched a second time
C33_Witness ==
  /\ scheduler.mounted
  /\ scheduler.closure # NoClosure
  /\ \E i \in 1..Len(scheduler.observed) :
        /\ scheduler.observed[i].refetch
        /\ scheduler.observed[i].previousTrigger # 0
        /\ scheduler.observed[i].interval = 2

C40_OneWaitOneUpdatePerHash ==
  /\ \A g \in 1..Len(watchers) :
        /\ DOMAIN watchers[g].waits = watchers[g].watching
        /\ \A h \in DOMAIN watchers[g].waits : watchers[g].waits[h] = 1
        /\ DOMAIN watchers[g].emitted \subseteq watchers[g].watching
        /\ \A h \in DOMAIN watchers[g].emitted : watchers[g].emitted[h] = 1
        /\ \A t \in watchers[g].waiting : t.txHash \notin DOMAIN watchers[g].emitted
  /\ last.op = "receipt" =>
        /\ Len(last.updates) = 1
        /\ last.updates[1].txHash = last.txHash
        /\ last.updates[1].by = last.watcher
        /\ last.updates[1].status = IF last.succeeded THEN "success" ELSE "error"

\* a storage event has announced the stored transactions and another tab's to the
\* provider's second watcher, which watches two hashes and has made its update for one
C40_Witness ==
  /\ last.op = "storageEvent"
  /\ globalWatcher >= 2
  /\ storage # <<>>
  /\ Cardinality(watchers[globalWatcher].watching) = 2
  /\ \E h \in DOMAIN watchers[globalWatcher].emitted :
        \E i \in 1..Len(storage) : storage[i].txHash # h

\* C32: a new block makes ContextQueryProvider's executor read the batch again only
\* through the block scheduler (refetch): not at all while watchBlocks is off or the batch
\* has no calls, and with watchBlocks on and an interval of N blocks at most once per N
\* blocks
C32_BlockReadsOnlyByScheduler ==
  (contextBlocks.mounted /\ last.op \in {"onBlockUpdated", "addQuery", "removeQuery"}) =>
    LET caused == contextBlocks.caused
    IN /\ \A i \in 1..Len(caused) : caused[i].by = "refetch"
       /\ (~Truthy(contextBlocks.watchBlocks) \/ Len(providerQuery.calls) = 0) => caused = <<>>
       /\ Len(caused) <= 1
       /\ \A i \in 1..Len(caused) :
             caused[i].previous # 0 =>
               caused[i].block - caused[i].previous
                 >= ContextInterval(contextBlocks.blocksRefetchInterval)


\* the executor has ended the read of the latest batch and has data for it: the provider
\* has rendered with the batch of the manager's version and with a result that is not
\* loading and has data
LatestCompleted ==
  /\ executor.mounted
  /\ executor.query.version = version
  /\ ~executor.result.isLoading
  /\ executor.result.data # UndefinedValue

\* the last call was the provider's onResult with that result, and it called back every
\* active query that has requests, each with its slice of the result and with the
\* result's error
LatestApplied ==
  /\ executor.mounted
  /\ last.op = "onResult"
  /\ last.version = version
  /\ last.result = executor.result
  /\ FiredIds = NonEmptyActive
  /\ \A j \in 1..Len(fired) :
        /\ fired[j].result.data.items =
             SubSeq(executor.result.data.items,
                    RequestsBefore(NonEmptyActive, j - 1) + 1,
                    RequestsBefore(NonEmptyActive, j))
        /\ fired[j].result.isError = executor.result.isError
        /\ fired[j].result.error = executor.result.error

\* a registration, a removal or a resolver change has replaced the batch the provider
\* rendered with
Superseded == executor.mounted /\ executor.query.version # version

TypeOK ==
  /\ version \in 0..MaxVersion
  /\ queryId \in 0..MaxQueries
  /\ Range(activeQueries) = DOMAIN queries

====
